---- MODULE Spec2Model ----
(***************************************************************************)
(* Coupled-resonator bandpass filter synthesis (bandpass_lib).             *)
(*                                                                         *)
(* Python floats are represented as fixed-point integers: the real value   *)
(* v is the integer v * Scale, and every arithmetic operation rounds its   *)
(* result down to that grid.  calculate_bandpass_filter is modelled        *)
(* statement group by statement group; pc is the position inside the call. *)
(***************************************************************************)
EXTENDS Integers, Sequences, FiniteSets

(***************************************************************************)
(* Fixed-point arithmetic standing for the float operators of the source.  *)
(***************************************************************************)
\* five decimals, the precision the g-value tables are written to
FracDigits == 5
Scale == 100000
\* math.pi
Pi == 314159

\* Python None
None == <<>>

\* a * b on the fixed-point grid, computed in parts that fit a machine word
MulFx(a, b) ==
    LET ah == a \div Scale
        al == a % Scale
        bh == b \div Scale
        bl == b % Scale
        a1 == al \div 1000
        a0 == al % 1000
        b1 == bl \div 1000
        b0 == bl % 1000
    IN  ah * bh * Scale + ah * bl + al * bh + a1 * b1 * 10
          + ((a1 * b0 + a0 * b1) * 1000 + a0 * b0) \div Scale

RECURSIVE Pow10(_)
Pow10(d) == IF d = 0 THEN 1 ELSE 10 * Pow10(d - 1)

RECURSIVE DivDigits(_, _, _)
DivDigits(r, b, d) ==
    IF d = 0 THEN 0
    ELSE LET t == r * 10
         IN  (t \div b) * Pow10(d - 1) + DivDigits(t % b, b, d - 1)

\* a / b on the fixed-point grid (long division), b > 0
DivFx(a, b) == (a \div b) * Scale + DivDigits(a % b, b, FracDigits)

RECURSIVE SqrtSearch(_, _, _)
SqrtSearch(x, lo, hi) ==
    IF hi - lo <= 1 THEN lo
    ELSE LET mid == (lo + hi) \div 2
         IN  IF MulFx(mid, mid) <= x THEN SqrtSearch(x, mid, hi)
                                     ELSE SqrtSearch(x, lo, mid)

\* math.sqrt: the largest grid value whose square does not exceed x
SqrtFx(x) == SqrtSearch(x, 0, x + Scale + 1)

RECURSIVE SinSeries(_, _, _)
SinSeries(y2, t, k) ==
    IF t = 0 THEN 0
    ELSE LET d == (2 * k) * (2 * k + 1)
         IN  t - SinSeries(y2, (MulFx(t, y2) + d \div 2) \div d, k + 1)

\* math.sin on [0, pi]: reflection about pi/2, then the Maclaurin series with
\* each term rounded to nearest; the result never exceeds 1
SinFx(x) ==
    LET y == IF 2 * x > Pi THEN Pi - x ELSE x
        s == SinSeries(MulFx(y, y), y, 1)
    IN  IF s > Scale THEN Scale ELSE s

(***************************************************************************)
(* Decimal floating point with eight significant digits, used where the    *)
(* relative accuracy of a float computation matters: the value of          *)
(* [m |-> m, e |-> e] is m * 10^e with 10^7 <= m < 10^8, or m = 0.  Every    *)
(* operation truncates to eight digits.                                    *)
(***************************************************************************)
RECURSIVE FlNormPos(_, _)
FlNormPos(m, e) ==
    IF m >= 100000000 THEN FlNormPos(m \div 10, e + 1)
    ELSE IF m < 10000000 THEN FlNormPos(m * 10, e - 1)
    ELSE [m |-> m, e |-> e]

\* a negative float carries a negative mantissa
FlNorm(m, e) ==
    IF m = 0 THEN [m |-> 0, e |-> 0]
    ELSE IF m < 0 THEN [m |-> 0 - FlNormPos(0 - m, e).m, e |-> FlNormPos(0 - m, e).e]
    ELSE FlNormPos(m, e)

FlFromInt(i) == FlNorm(i, 0)
FlFromFx(x) == FlNorm(x, 0 - FracDigits)

\* the fixed-point grid value of a float (rounded down)
FlToFx(a) ==
    IF a.e + FracDigits >= 0 THEN a.m * Pow10(a.e + FracDigits)
    ELSE IF a.e + FracDigits < 0 - 8 THEN 0
    ELSE a.m \div Pow10(0 - (a.e + FracDigits))

FlMul(a, b) ==
    LET a1 == a.m \div 10000
        a0 == a.m % 10000
        b1 == b.m \div 10000
        b0 == b.m % 10000
        c2 == a1 * b1
        c1 == a1 * b0 + a0 * b1
        c0 == a0 * b0
        hi8 == c2 + (c1 + c0 \div 10000) \div 10000
        hi7 == c2 * 10 + (c1 * 10 + c0 \div 1000) \div 10000
    IN  IF a.m = 0 \/ b.m = 0 THEN [m |-> 0, e |-> 0]
        ELSE IF hi8 >= 10000000 THEN [m |-> hi8, e |-> a.e + b.e + 8]
        ELSE [m |-> hi7, e |-> a.e + b.e + 7]

\* a / b, b # 0
FlDiv(a, b) ==
    IF a.m = 0 THEN [m |-> 0, e |-> 0]
    ELSE IF a.m >= b.m
        THEN [m |-> (a.m \div b.m) * 10000000 + DivDigits(a.m % b.m, b.m, 7),
              e |-> a.e - b.e - 7]
    ELSE [m |-> DivDigits(a.m, b.m, 8), e |-> a.e - b.e - 8]

\* the leading digits of r * r: floor(r * r / 10^8)
SquareHigh(r) ==
    LET r1 == r \div 10000
        r0 == r % 10000
    IN  r1 * r1 + (2 * r1 * r0 + (r0 * r0) \div 10000) \div 10000

RECURSIVE FlSqrtSearch(_, _, _)
FlSqrtSearch(x, lo, hi) ==
    IF hi - lo <= 1 THEN lo
    ELSE LET mid == (lo + hi) \div 2
         IN  IF SquareHigh(mid) <= x THEN FlSqrtSearch(x, mid, hi)
                                     ELSE FlSqrtSearch(x, lo, mid)

\* math.sqrt on floats
FlSqrt(a) ==
    LET odd == a.e % 2 # 0
        mm == IF odd THEN a.m * 10 ELSE a.m
        ee == IF odd THEN a.e - 1 ELSE a.e
    IN  IF a.m = 0 THEN [m |-> 0, e |-> 0]
        ELSE FlNorm(FlSqrtSearch(mm, 0, 320000000), (ee - 8) \div 2)

\* abs(a - b) for floats
FlAbsDiff(a, b) ==
    IF a.m = 0 THEN b
    ELSE IF b.m = 0 THEN a
    ELSE IF a.e = b.e
        THEN FlNorm(IF a.m >= b.m THEN a.m - b.m ELSE b.m - a.m, a.e)
    ELSE IF a.e = b.e + 1 THEN FlNorm(a.m * 10 - b.m, b.e)
    ELSE IF b.e = a.e + 1 THEN FlNorm(b.m * 10 - a.m, a.e)
    ELSE IF a.e > b.e
        THEN FlNorm(a.m - (IF a.e - b.e > 8 THEN 0 ELSE b.m \div Pow10(a.e - b.e)), a.e)
    ELSE FlNorm(b.m - (IF b.e - a.e > 8 THEN 0 ELSE a.m \div Pow10(b.e - a.e)), b.e)

\* a < b for non-negative floats
FlLess(a, b) ==
    IF b.m = 0 THEN FALSE
    ELSE IF a.m = 0 THEN TRUE
    ELSE a.e < b.e \/ (a.e = b.e /\ a.m < b.m)

\* a <= b for non-negative floats
FlLessEq(a, b) == ~FlLess(b, a)

\* a + b for non-negative floats
FlAdd(a, b) ==
    IF a.m = 0 THEN b
    ELSE IF b.m = 0 THEN a
    ELSE IF a.e >= b.e
        THEN FlNorm(a.m + (IF a.e - b.e > 8 THEN 0 ELSE b.m \div Pow10(a.e - b.e)), a.e)
    ELSE FlNorm(b.m + (IF b.e - a.e > 8 THEN 0 ELSE a.m \div Pow10(b.e - a.e)), b.e)

FlOne == FlFromInt(1)
FlTwoPi == FlMul(FlFromInt(2), FlFromFx(Pi))

(***************************************************************************)
(* Prototype g-value tables (values times Scale).                          *)
(***************************************************************************)
BESSEL_G_VALUES ==
    [n \in 2..9 |->
        CASE n = 2 -> <<57550, 214780>>
          [] n = 3 -> <<33740, 97050, 220340>>
          [] n = 4 -> <<23340, 67250, 108150, 224040>>
          [] n = 5 -> <<17430, 50720, 80400, 111100, 225820>>
          [] n = 6 -> <<13650, 40020, 63920, 85380, 111260, 226450>>
          [] n = 7 -> <<11060, 32590, 52490, 70200, 86900, 110520, 226590>>
          [] n = 8 -> <<9190, 27190, 44090, 59360, 73030, 86950, 109560, 226560>>
          [] n = 9 -> <<7800, 23130, 37700, 51080, 63060, 74070, 86390, 108630,
                        226490>>]

Ripple01 == 10000
Ripple05 == 50000
Ripple10 == 100000

CHEBYSHEV_G_VALUES ==
    [r \in {Ripple01, Ripple05, Ripple10} |->
        [n \in {3, 5, 7, 9} |->
            CASE r = Ripple01 /\ n = 3 -> <<103159, 114740, 103159>>
              [] r = Ripple01 /\ n = 5 -> <<114684, 137121, 197503, 137121, 114684>>
              [] r = Ripple01 /\ n = 7 ->
                   <<118120, 142280, 209669, 157339, 209669, 142280, 118120>>
              [] r = Ripple01 /\ n = 9 ->
                   <<119570, 144260, 213457, 161671, 220539, 161671, 213457,
                     144260, 119570>>
              [] r = Ripple05 /\ n = 3 -> <<159633, 109668, 159633>>
              [] r = Ripple05 /\ n = 5 -> <<170582, 122961, 254088, 122961, 170582>>
              [] r = Ripple05 /\ n = 7 ->
                   <<173734, 125822, 263834, 134431, 263834, 125822, 173734>>
              [] r = Ripple05 /\ n = 9 ->
                   <<175049, 126902, 266783, 136730, 272396, 136730, 266783,
                     126902, 175049>>
              [] r = Ripple10 /\ n = 3 -> <<202367, 99408, 202367>>
              [] r = Ripple10 /\ n = 5 -> <<213496, 109108, 300101, 109108, 213496>>
              [] r = Ripple10 /\ n = 7 ->
                   <<216664, 111148, 309373, 117349, 309373, 111148, 216664>>
              [] r = Ripple10 /\ n = 9 ->
                   <<217980, 111915, 312152, 118964, 317472, 118964, 312152,
                     111915, 217980>>]]

(***************************************************************************)
(* Exceptions and returns.  A ValueError carries its message template;     *)
(* arg is the value the message interpolates and caps the tank capacitor   *)
(* indices it names.                                                       *)
(***************************************************************************)
ValueError(text) == [kind |-> "error", msg |-> text, arg |-> None, caps |-> <<>>]
ValueErrorArg(text, a) == [kind |-> "error", msg |-> text, arg |-> <<a>>, caps |-> <<>>]
ValueErrorCaps(text, c) == [kind |-> "error", msg |-> text, arg |-> None, caps |-> c]
Return(v) == [kind |-> "return", value |-> v]
Pending == [kind |-> "pending"]

MsgF0 == "Center frequency must be positive"
MsgBw == "Bandwidth must be positive"
MsgBwF0 == "Bandwidth must be less than center frequency"
MsgZ0 == "Impedance must be positive"
MsgN == "Number of resonators must be between 2 and 9"
MsgType == "Filter type must be 'butterworth', 'chebyshev', or 'bessel'"
MsgCoupling == "Coupling must be 'top' or 'shunt'"
MsgRipple == "Ripple {ripple_db} dB not supported. Use 0.1, 0.5, or 1.0"
MsgOdd == "Chebyshev requires odd resonator count (3, 5, 7, 9) for equal terminations. Got {n}. Use Butterworth for even counts."
MsgBessel == "Bessel g-values only available for 2-9 resonators, got {n}"
MsgTank == "Bandwidth too wide: tank capacitors {cap_list} would be negative. Reduce bandwidth or use fewer resonators."
MsgShunt == "FBW {fbw*100:.1f}% exceeds 10% limit for Shunt-C; consider Top-C topology"
MsgWide == "FBW {fbw*100:.1f}% exceeds 40%; consider transmission-line design"

(***************************************************************************)
(* Prototype Provider                                                      *)
(***************************************************************************)
\* variant: the element index used in place of 2*i - 1
calculate_butterworth_g_values_index(n) ==
    [i \in 1..n |-> 2 * SinFx((i * Pi) \div (2 * n))]

calculate_butterworth_g_values(n) ==
    [i \in 1..n |-> 2 * SinFx(((2 * i - 1) * Pi) \div (2 * n))]

\* variant: an order missing from the table silently falls back to Butterworth
get_chebyshev_g_values_fallback(n, ripple_db) ==
    IF ripple_db \notin DOMAIN CHEBYSHEV_G_VALUES
        THEN ValueErrorArg(MsgRipple, ripple_db)
    ELSE IF n \notin DOMAIN CHEBYSHEV_G_VALUES[ripple_db]
        THEN Return(calculate_butterworth_g_values(n))
    ELSE Return(CHEBYSHEV_G_VALUES[ripple_db][n])

\* variant: the 0.5 dB table returned for every supported ripple
get_chebyshev_g_values_one_ripple(n, ripple_db) ==
    IF ripple_db \notin DOMAIN CHEBYSHEV_G_VALUES
        THEN ValueErrorArg(MsgRipple, ripple_db)
    ELSE IF n \notin DOMAIN CHEBYSHEV_G_VALUES[ripple_db]
        THEN ValueErrorArg(MsgOdd, n)
    ELSE Return(CHEBYSHEV_G_VALUES[Ripple05][n])

\* variant: the order is looked up before the ripple
get_chebyshev_g_values_order_first(n, ripple_db) ==
    IF n \notin {3, 5, 7, 9}
        THEN ValueErrorArg(MsgOdd, n)
    ELSE IF ripple_db \notin DOMAIN CHEBYSHEV_G_VALUES
        THEN ValueErrorArg(MsgRipple, ripple_db)
    ELSE Return(CHEBYSHEV_G_VALUES[ripple_db][n])

get_chebyshev_g_values(n, ripple_db) ==
    IF ripple_db \notin DOMAIN CHEBYSHEV_G_VALUES
        THEN ValueErrorArg(MsgRipple, ripple_db)
    ELSE IF n \notin DOMAIN CHEBYSHEV_G_VALUES[ripple_db]
        THEN ValueErrorArg(MsgOdd, n)
    ELSE Return(CHEBYSHEV_G_VALUES[ripple_db][n])

get_bessel_g_values(n) ==
    IF n \notin DOMAIN BESSEL_G_VALUES
        THEN ValueErrorArg(MsgBessel, n)
    ELSE Return(BESSEL_G_VALUES[n])

(***************************************************************************)
(* Coupling/Q Calculator                                                   *)
(***************************************************************************)
\* variant: the square root left out
calculate_coupling_coefficients_no_sqrt(g, fbw_) ==
    [i \in 1..(Len(g) - 1) |-> DivFx(fbw_, MulFx(g[i], g[i + 1]))]

\* variant: the quotient taken the other way round
calculate_coupling_coefficients_inverse(g, fbw_) ==
    [i \in 1..(Len(g) - 1) |-> DivFx(SqrtFx(MulFx(g[i], g[i + 1])), fbw_)]

\* variant: the index slip g[i] * g[i] in place of g[i] * g[i + 1]
calculate_coupling_coefficients_self(g, fbw_) ==
    [i \in 1..(Len(g) - 1) |-> DivFx(fbw_, SqrtFx(MulFx(g[i], g[i])))]

calculate_coupling_coefficients(g, fbw_) ==
    [i \in 1..(Len(g) - 1) |-> DivFx(fbw_, SqrtFx(MulFx(g[i], g[i + 1])))]

\* variant: the output Q taken from the first g-value
calculate_external_q_first(g, fbw_) ==
    <<DivFx(MulFx(Scale, g[1]), fbw_), DivFx(MulFx(g[1], Scale), fbw_)>>

calculate_external_q(g, fbw_) ==
    LET g0 == Scale
        g_n_plus_1 == Scale
    IN  <<DivFx(MulFx(g0, g[1]), fbw_), DivFx(MulFx(g[Len(g)], g_n_plus_1), fbw_)>>

(***************************************************************************)
(* Resonator Synthesizer                                                   *)
(***************************************************************************)
\* variant: the factor 2 of omega0 left out
calculate_resonator_components_pi(f0, z0) ==
    LET omega0 == FlMul(FlFromFx(Pi), f0)
    IN  <<FlDiv(z0, omega0), FlDiv(FlOne, FlMul(omega0, z0))>>

\* floats in, floats out
calculate_resonator_components(f0, z0) ==
    LET omega0 == FlMul(FlTwoPi, f0)
    IN  <<FlDiv(z0, omega0), FlDiv(FlOne, FlMul(omega0, z0))>>

(***************************************************************************)
(* Coupling Network Builder                                                *)
(***************************************************************************)
calculate_coupling_capacitors_top_c(k, c_resonant) ==
    [i \in 1..Len(k) |-> MulFx(k[i], c_resonant)]

\* variant: Shunt-C with its own formula, k^2 * C_resonant
calculate_coupling_capacitors_shunt_c_own(k, c_resonant) ==
    [i \in 1..Len(k) |-> MulFx(MulFx(k[i], k[i]), c_resonant)]

calculate_coupling_capacitors_shunt_c(k, c_resonant) ==
    [i \in 1..Len(k) |-> MulFx(k[i], c_resonant)]

\* variant: the loop stops one resonator short
calculate_tank_capacitors_short(n_resonators, c_resonant, cs, topology) ==
    [i \in 1..(n_resonators - 1) |->
        LET left == IF i > 1 THEN cs[i - 1] ELSE 0
            right == IF i < n_resonators THEN cs[i] ELSE 0
        IN  c_resonant - (0 + left + right)]

\* variant: the right-hand test chained with elif behind the left-hand test
calculate_tank_capacitors_elif(n_resonators, c_resonant, cs, topology) ==
    [i \in 1..n_resonators |->
        LET compensation == IF i > 1 THEN 0 + cs[i - 1]
                            ELSE IF i < n_resonators THEN 0 + cs[i]
                            ELSE 0
        IN  c_resonant - compensation]

\* variant: a fixed stray capacitance of 0.2 taken off every tank capacitor
calculate_tank_capacitors_stray(n_resonators, c_resonant, cs, topology) ==
    [i \in 1..n_resonators |->
        LET left == IF i > 1 THEN cs[i - 1] ELSE 0
            right == IF i < n_resonators THEN cs[i] ELSE 0
        IN  c_resonant - (0 + left + right) - 2 * (Scale \div 10)]

\* resonators are numbered 1..n here (the source loops i over 0..n-1)
calculate_tank_capacitors(n_resonators, c_resonant, cs, topology) ==
    [i \in 1..n_resonators |->
        LET left == IF i > 1 THEN cs[i - 1] ELSE 0
            right == IF i < n_resonators THEN cs[i] ELSE 0
            compensation == 0 + left + right
        IN  c_resonant - compensation]

\* variant: the ratio taken the other way round
calculate_min_q_inverse(f0, bw, safety_factor) == MulFx(DivFx(bw, f0), safety_factor)

calculate_min_q(f0, bw, safety_factor) == MulFx(DivFx(f0, bw), safety_factor)

(***************************************************************************)
(* Standard-Value Matcher (eseries.py).  Values are floats; the mantissas  *)
(* of E_SERIES are stored times 100.                                       *)
(***************************************************************************)
E_SERIES ==
    [name \in {"E12", "E24", "E96"} |->
        CASE name = "E12" ->
               <<100, 120, 150, 180, 220, 270, 330, 390, 470, 560, 680, 820>>
          [] name = "E24" ->
               <<100, 110, 120, 130, 150, 160, 180, 200, 220, 240, 270, 300,
                 330, 360, 390, 430, 470, 510, 560, 620, 680, 750, 820, 910>>
          [] name = "E96" ->
               <<100, 102, 105, 107, 110, 113, 115, 118, 121, 124, 127, 130,
                 133, 137, 140, 143, 147, 150, 154, 158, 162, 165, 169, 174,
                 178, 182, 187, 191, 196, 200, 205, 210, 215, 221, 226, 232,
                 237, 243, 249, 255, 261, 267, 274, 280, 287, 294, 301, 309,
                 316, 324, 332, 340, 348, 357, 365, 374, 383, 392, 402, 412,
                 422, 432, 442, 453, 464, 475, 487, 499, 511, 523, 536, 549,
                 562, 576, 590, 604, 619, 634, 649, 665, 681, 698, 715, 732,
                 750, 768, 787, 806, 825, 845, 866, 887, 909, 931, 953, 976>>]

MsgSeries == "Unknown series '{series}'. Use E12, E24, or E96."
MsgPositive == "Value must be positive"

\* <<mantissa, decade>>, or the ValueError raised
normalize(value) ==
    IF value.m <= 0 THEN ValueError(MsgPositive)
    ELSE Return(<<[m |-> value.m, e |-> 0 - 7], value.e + 7>>)

\* mantissa is a table entry (times 100)
denormalize(mantissa, decade) == FlNorm(mantissa, decade - 2)

error_pct(actual, target) ==
    FlMul(FlDiv(FlAbsDiff(actual, target), target), FlFromInt(100))

\* best_value, best_error = None, float('inf')
NoBest == [has |-> FALSE]

\* variant: the comparison err <= best_error, the last of equal candidates wins
BetterOrEqual(best, trial) ==
    IF trial.skip THEN best
    ELSE IF ~best.has \/ FlLessEq(trial.err, best.err)
        THEN [has |-> TRUE, skip |-> FALSE, combo |-> trial.combo,
              value |-> trial.value, err |-> trial.err]
    ELSE best

\* if err < best_error: best_error, best_value, ... = err, candidate, ...
\* for a candidate the loop body did not skip
Better(best, trial) ==
    IF trial.skip THEN best
    ELSE IF ~best.has \/ FlLess(trial.err, best.err)
        THEN [has |-> TRUE, skip |-> FALSE, combo |-> trial.combo,
              value |-> trial.value, err |-> trial.err]
    ELSE best

\* The element of a one-element set.  A variable of a set constructor holds
\* an evaluated value, so Only({F(x) : x \in {e}}) is F(e) with e evaluated
\* once, as an assignment to a local variable is.
Only(S) == CHOOSE x \in S : TRUE

\* The state (best_*) of a loop `for ...: if err < best_error: ...` over the
\* candidates numbered lo..hi.  Because the comparison is strict, the loop
\* keeps the first candidate of least error, so the range may be scanned in
\* two halves, the later half winning only with a strictly smaller error.
RECURSIVE Scan(_, _, _)
Scan(trials, lo, hi) ==
    IF lo > hi THEN NoBest
    ELSE IF lo = hi THEN Only({Better(NoBest, trial) : trial \in {trials[lo]}})
    ELSE Only({IF later.has THEN Better(earlier, later) ELSE earlier :
                  earlier \in {Scan(trials, lo, (lo + hi) \div 2)},
                  later \in {Scan(trials, ((lo + hi) \div 2) + 1, hi)}})

\* the candidates find_closest_single examines, in order: the mantissas in
\* the target's decade, then [series_values[0] one decade up,
\* series_values[-1] one decade down]
SingleCandidate(series_values, decade, k) ==
    IF k <= Len(series_values) THEN denormalize(series_values[k], decade)
    ELSE IF k = Len(series_values) + 1 THEN denormalize(series_values[1], decade + 1)
    ELSE denormalize(series_values[Len(series_values)], decade - 1)

\* variant: the target normalized before the series is looked up
find_closest_single_normalize_first(target, series) ==
    IF normalize(target).kind = "error" THEN normalize(target)
    ELSE IF series \notin DOMAIN E_SERIES THEN ValueErrorArg(MsgSeries, series)
    ELSE LET decade == normalize(target).value[2]
             series_values == E_SERIES[series]
             trials ==
                 [k \in 1..(Len(series_values) + 2) |->
                     LET candidate == SingleCandidate(series_values, decade, k)
                     IN  [skip |-> FALSE, combo |-> None, value |-> candidate,
                          err |-> error_pct(candidate, target)]]
         IN  Only({Return(<<best.value, best.err>>) :
                      best \in {Scan(trials, 1, Len(series_values) + 2)}})

\* variant: only the target's own decade is scanned
find_closest_single_own_decade(target, series) ==
    IF series \notin DOMAIN E_SERIES THEN ValueErrorArg(MsgSeries, series)
    ELSE IF normalize(target).kind = "error" THEN normalize(target)
    ELSE LET decade == normalize(target).value[2]
             series_values == E_SERIES[series]
             trials ==
                 [k \in 1..(Len(series_values)) |->
                     LET candidate == SingleCandidate(series_values, decade, k)
                     IN  [skip |-> FALSE, combo |-> None, value |-> candidate,
                          err |-> error_pct(candidate, target)]]
         IN  Only({Return(<<best.value, best.err>>) :
                      best \in {Scan(trials, 1, Len(series_values))}})

\* Return(<<matched_value, error_pct>>), or the ValueError raised
find_closest_single(target, series) ==
    IF series \notin DOMAIN E_SERIES THEN ValueErrorArg(MsgSeries, series)
    ELSE IF normalize(target).kind = "error" THEN normalize(target)
    ELSE LET decade == normalize(target).value[2]
             series_values == E_SERIES[series]
             trials ==
                 [k \in 1..(Len(series_values) + 2) |->
                     LET candidate == SingleCandidate(series_values, decade, k)
                     IN  [skip |-> FALSE, combo |-> None, value |-> candidate,
                          err |-> error_pct(candidate, target)]]
         IN  Only({Return(<<best.value, best.err>>) :
                      best \in {Scan(trials, 1, Len(series_values) + 2)}})

FlMax(a, b) == IF FlLess(a, b) THEN b ELSE a
FlMin(a, b) == IF FlLess(b, a) THEN b ELSE a

\* variant: the ratio test left out
TryV1_any_ratio(v1, target, series, ratio_limit) ==
    IF FlLessEq(v1, target) THEN [skip |-> TRUE]
    ELSE Only({
        IF v2_needed.m <= 0 THEN [skip |-> TRUE]
        ELSE Only({
            Only({[skip |-> FALSE, combo |-> <<v1, v2>>,
                   value |-> parallel_val,
                   err |-> error_pct(parallel_val, target)] :
                  parallel_val \in {FlDiv(FlMul(v1, v2), FlAdd(v1, v2))}}) :
            v2 \in {find_closest_single(v2_needed, series).value[1]}}) :
        v2_needed \in {FlDiv(FlMul(v1, target), FlAbsDiff(v1, target))}})

\* variant: v2_needed computed with v1 + target in the denominator
TryV1_sum(v1, target, series, ratio_limit) ==
    IF FlLessEq(v1, target) THEN [skip |-> TRUE]
    ELSE Only({
        IF v2_needed.m <= 0 THEN [skip |-> TRUE]
        ELSE Only({
            IF FlLess(ratio_limit, FlDiv(FlMax(v1, v2), FlMin(v1, v2)))
                THEN [skip |-> TRUE]
            ELSE Only({[skip |-> FALSE, combo |-> <<v1, v2>>,
                        value |-> parallel_val,
                        err |-> error_pct(parallel_val, target)] :
                       parallel_val \in {FlDiv(FlMul(v1, v2), FlAdd(v1, v2))}}) :
            v2 \in {find_closest_single(v2_needed, series).value[1]}}) :
        v2_needed \in {FlDiv(FlMul(v1, target), FlAdd(v1, target))}})

\* the body of the loop over candidates for one v1, up to the comparison
\* with best_error: the candidate is skipped (continue) or evaluated
TryV1(v1, target, series, ratio_limit) ==
    IF FlLessEq(v1, target) THEN [skip |-> TRUE]
    ELSE Only({
        IF v2_needed.m <= 0 THEN [skip |-> TRUE]
        ELSE Only({
            IF FlLess(ratio_limit, FlDiv(FlMax(v1, v2), FlMin(v1, v2)))
                THEN [skip |-> TRUE]
            ELSE Only({[skip |-> FALSE, combo |-> <<v1, v2>>,
                        value |-> parallel_val,
                        err |-> error_pct(parallel_val, target)] :
                       parallel_val \in {FlDiv(FlMul(v1, v2), FlAdd(v1, v2))}}) :
            v2 \in {find_closest_single(v2_needed, series).value[1]}}) :
        v2_needed \in {FlDiv(FlMul(v1, target), FlAbsDiff(v1, target))}})

\* candidates = [_denormalize(sv, d) for d in range(decade - 1, decade + 3)
\*               for sv in E_SERIES[series]], numbered from 1
Candidate(series, decade, k) ==
    LET len == Len(E_SERIES[series])
    IN  denormalize(E_SERIES[series][((k - 1) % len) + 1],
                    decade - 1 + ((k - 1) \div len))

\* Return(<<(V1, V2), parallel_value, error_pct>>), Return(None), or the
\* ValueError raised
find_parallel_combo(target, series, ratio_limit) ==
    IF series \notin DOMAIN E_SERIES THEN ValueErrorArg(MsgSeries, series)
    ELSE IF normalize(target).kind = "error" THEN normalize(target)
    ELSE LET decade == normalize(target).value[2]
             trials ==
                 [k \in 1..(4 * Len(E_SERIES[series])) |->
                     TryV1(Candidate(series, decade, k), target, series,
                           ratio_limit)]
         IN  Only({IF best.has THEN Return(<<best.combo, best.value, best.err>>)
                               ELSE Return(None) :
                      best \in {Scan(trials, 1, 4 * Len(E_SERIES[series]))}})

ESeriesMatch(target, single_value, single_error_pct, parallel, par_val, par_err) ==
    [target |-> target, single_value |-> single_value,
     single_error_pct |-> single_error_pct, parallel |-> parallel,
     parallel_value |-> par_val, parallel_error_pct |-> par_err]

\* variant: the pair kept only when it beats the single value
match_component_if_better(target, series, ratio_limit) ==
    Only({
        IF single.kind = "error" THEN single
        ELSE IF parallel_result.kind = "error" THEN parallel_result
        ELSE IF parallel_result.value # None
                /\ FlLess(parallel_result.value[3], single.value[2])
            THEN Return(ESeriesMatch(target, single.value[1], single.value[2],
                                     parallel_result.value[1],
                                     parallel_result.value[2],
                                     parallel_result.value[3]))
        ELSE Return(ESeriesMatch(target, single.value[1], single.value[2],
                                 None, None, None)) :
        single \in {find_closest_single(target, series)},
        parallel_result \in {find_parallel_combo(target, series, ratio_limit)}})

\* find_closest_single raises before find_parallel_combo is called; a
\* ValueError of either call is the call's outcome
match_component(target, series, ratio_limit) ==
    Only({
        IF single.kind = "error" THEN single
        ELSE IF parallel_result.kind = "error" THEN parallel_result
        ELSE IF parallel_result.value # None
            THEN Return(ESeriesMatch(target, single.value[1], single.value[2],
                                     parallel_result.value[1],
                                     parallel_result.value[2],
                                     parallel_result.value[3]))
        ELSE Return(ESeriesMatch(target, single.value[1], single.value[2],
                                 None, None, None)) :
        single \in {find_closest_single(target, series)},
        parallel_result \in {find_parallel_combo(target, series, ratio_limit)}})

(***************************************************************************)
(* Filter Assembler: calculate_bandpass_filter                             *)
(***************************************************************************)
ShuntLimit == 10000
WideLimit == 40000

\* bounds of the argument space explored
MaxF0 == 2
MaxBw == 21
MaxZ0 == 1
MaxN == 10

F0Values == {i * 10000 : i \in 0..MaxF0}
\* the grid, and a bandwidth at which 1 - k12 - k23 of a ninth-order
\* Butterworth design at f0 = 0.2 is within rounding error of zero
BwValues == {j * 1000 : j \in 0..MaxBw} \cup {7985}
Z0Values == {i * Scale : i \in 0..MaxZ0}
NValues == 1..MaxN
FilterTypes == {"butterworth", "chebyshev", "bessel", "elliptic"}
Couplings == {"top", "shunt", "mutual"}
Ripples == {Ripple01, Ripple05, Ripple10, 2 * Ripple01}
QSafeties == {0 - Scale, 0, Scale}

Args ==
    [f0 : F0Values, bw : BwValues, z0 : Z0Values, n_resonators : NValues,
     filter_type : FilterTypes, coupling : Couplings, ripple_db : Ripples,
     q_safety : QSafeties]

VARIABLES
    pc,          \* position inside calculate_bandpass_filter
    args,        \* the call's arguments
    fbw, warnings, g_values, k_values, qe, LC, c_coupling, c_tank,  \* locals
    outcome,     \* Pending, the ValueError raised, or the dict returned
    e_call,      \* the matcher function called with its arguments, or None
    e_result,    \* what that call returned or raised
    heap,        \* the list objects: those of the tables and the callers'
    refs,        \* the lists callers hold a reference to
    cli,         \* a run of the command-line program: its position and locals
    calls        \* the frames of the calls running side by side

matcher_vars == <<e_call, e_result>>
table_vars == <<heap, refs>>
driver_vars == <<cli, calls>>
vars == <<pc, args, fbw, warnings, g_values, k_values, qe, LC, c_coupling,
          c_tank, outcome, e_call, e_result, heap, refs, cli, calls>>

synthesis_vars == <<pc, args, fbw, warnings, g_values, k_values, qe, LC,
                    c_coupling, c_tank, outcome>>

\* no synthesis call in progress
NoSynthesis ==
    /\ pc = "idle"
    /\ args = None
    /\ fbw = 0
    /\ warnings = <<>>
    /\ g_values = <<>>
    /\ k_values = <<>>
    /\ qe = <<>>
    /\ LC = <<>>
    /\ c_coupling = <<>>
    /\ c_tank = <<>>
    /\ outcome = Pending

\* the list objects of the module-level tables, by table and key
TableIds ==
    {<<"bessel", 0, n>> : n \in DOMAIN BESSEL_G_VALUES}
    \cup {<<"chebyshev", r, n>> : r \in DOMAIN CHEBYSHEV_G_VALUES, n \in {3, 5, 7, 9}}
    \cup {<<name, 0, 0>> : name \in DOMAIN E_SERIES}

TableContent(id) ==
    IF id[1] = "bessel" THEN BESSEL_G_VALUES[id[3]]
    ELSE IF id[1] = "chebyshev" THEN CHEBYSHEV_G_VALUES[id[2]][id[3]]
    ELSE E_SERIES[id[1]]

\* the heap once the modules are imported
TableHeap == [id \in TableIds |-> TableContent(id)]

\* no command-line run and no side-by-side calls
NoDriver ==
    /\ cli = None
    /\ calls = <<>>

Idle ==
    /\ e_call = None
    /\ e_result = None
    /\ heap = TableHeap
    /\ refs = {}
    /\ NoDriver

Init ==
    /\ Idle
    /\ pc = "validate"
    /\ args \in Args
    /\ fbw = 0
    /\ warnings = <<>>
    /\ g_values = <<>>
    /\ k_values = <<>>
    /\ qe = <<>>
    /\ LC = <<>>
    /\ c_coupling = <<>>
    /\ c_tank = <<>>
    /\ outcome = Pending

\* variant: the resonator-count check moved to the front
PreValidateCountFirst(a) ==
    IF ~(2 <= a.n_resonators /\ a.n_resonators <= 9) THEN ValueError(MsgN)
    ELSE IF a.f0 <= 0 THEN ValueError(MsgF0)
    ELSE IF a.bw <= 0 THEN ValueError(MsgBw)
    ELSE IF a.bw >= a.f0 THEN ValueError(MsgBwF0)
    ELSE IF a.z0 <= 0 THEN ValueError(MsgZ0)
    ELSE IF a.filter_type \notin {"butterworth", "chebyshev", "bessel"}
        THEN ValueError(MsgType)
    ELSE IF a.coupling \notin {"top", "shunt"} THEN ValueError(MsgCoupling)
    ELSE Pending

\* the first failing check, or Pending when every check passes
PreValidate(a) ==
    IF a.f0 <= 0 THEN ValueError(MsgF0)
    ELSE IF a.bw <= 0 THEN ValueError(MsgBw)
    ELSE IF a.bw >= a.f0 THEN ValueError(MsgBwF0)
    ELSE IF a.z0 <= 0 THEN ValueError(MsgZ0)
    ELSE IF ~(2 <= a.n_resonators /\ a.n_resonators <= 9) THEN ValueError(MsgN)
    ELSE IF a.filter_type \notin {"butterworth", "chebyshev", "bessel"}
        THEN ValueError(MsgType)
    ELSE IF a.coupling \notin {"top", "shunt"} THEN ValueError(MsgCoupling)
    ELSE Pending

Raise(e) ==
    /\ outcome' = e
    /\ pc' = "raised"

Validate ==
    /\ pc = "validate"
    /\ UNCHANGED <<matcher_vars, table_vars, driver_vars>>
    /\ IF PreValidate(args) # Pending
          THEN Raise(PreValidate(args))
          ELSE pc' = "bandwidth" /\ UNCHANGED outcome
    /\ UNCHANGED <<args, fbw, warnings, g_values, k_values, qe, LC, c_coupling,
                   c_tank>>

\* variant: the 40% test chained with elif behind the Shunt-C test
BandwidthWarningsElif(coupling, fbw_) ==
    IF coupling = "shunt" /\ fbw_ > ShuntLimit THEN <<MsgShunt>>
    ELSE IF fbw_ > WideLimit THEN <<MsgWide>>
    ELSE <<>>

BandwidthWarnings(coupling, fbw_) ==
    (IF coupling = "shunt" /\ fbw_ > ShuntLimit THEN <<MsgShunt>> ELSE <<>>)
      \o (IF fbw_ > WideLimit THEN <<MsgWide>> ELSE <<>>)

Bandwidth ==
    /\ pc = "bandwidth"
    /\ UNCHANGED <<matcher_vars, table_vars, driver_vars>>
    /\ fbw' = DivFx(args.bw, args.f0)
    /\ warnings' = BandwidthWarnings(args.coupling, fbw')
    /\ pc' = "prototype"
    /\ UNCHANGED <<args, g_values, k_values, qe, LC, c_coupling, c_tank, outcome>>

\* variant: the ripple checked against the table whatever the filter type
PrototypeLookupRippleFirst(a) ==
    IF a.ripple_db \notin DOMAIN CHEBYSHEV_G_VALUES
        THEN ValueErrorArg(MsgRipple, a.ripple_db)
    ELSE IF a.filter_type = "butterworth"
        THEN Return(calculate_butterworth_g_values(a.n_resonators))
    ELSE IF a.filter_type = "chebyshev"
        THEN get_chebyshev_g_values(a.n_resonators, a.ripple_db)
    ELSE get_bessel_g_values(a.n_resonators)

PrototypeLookup(a) ==
    IF a.filter_type = "butterworth"
        THEN Return(calculate_butterworth_g_values(a.n_resonators))
    ELSE IF a.filter_type = "chebyshev"
        THEN get_chebyshev_g_values(a.n_resonators, a.ripple_db)
    ELSE get_bessel_g_values(a.n_resonators)

Prototype ==
    /\ pc = "prototype"
    /\ UNCHANGED <<matcher_vars, table_vars, driver_vars>>
    /\ LET r == PrototypeLookup(args)
       IN  IF r.kind = "error"
              THEN Raise(r) /\ UNCHANGED g_values
              ELSE g_values' = r.value /\ pc' = "couplingq" /\ UNCHANGED outcome
    /\ UNCHANGED <<args, fbw, warnings, k_values, qe, LC, c_coupling, c_tank>>

CouplingQ ==
    /\ pc = "couplingq"
    /\ UNCHANGED <<matcher_vars, table_vars, driver_vars>>
    /\ k_values' = calculate_coupling_coefficients(g_values, fbw)
    /\ qe' = calculate_external_q(g_values, fbw)
    /\ pc' = "resonator"
    /\ UNCHANGED <<args, fbw, warnings, g_values, LC, c_coupling, c_tank, outcome>>

Resonator ==
    /\ pc = "resonator"
    /\ UNCHANGED <<matcher_vars, table_vars, driver_vars>>
    /\ LC' = LET r == calculate_resonator_components(FlFromFx(args.f0),
                                                     FlFromFx(args.z0))
              IN  <<FlToFx(r[1]), FlToFx(r[2])>>
    /\ pc' = "network"
    /\ UNCHANGED <<args, fbw, warnings, g_values, k_values, qe, c_coupling, c_tank,
                   outcome>>

Network ==
    /\ pc = "network"
    /\ UNCHANGED <<matcher_vars, table_vars, driver_vars>>
    /\ c_coupling' = IF args.coupling = "top"
                        THEN calculate_coupling_capacitors_top_c(k_values, LC[2])
                        ELSE calculate_coupling_capacitors_shunt_c(k_values, LC[2])
    /\ c_tank' = calculate_tank_capacitors(args.n_resonators, LC[2], c_coupling',
                                           args.coupling)
    /\ pc' = "feasibility"
    /\ UNCHANGED <<args, fbw, warnings, g_values, k_values, qe, LC, outcome>>

RECURSIVE NegativeCapsZeroBasedFrom(_, _)
NegativeCapsZeroBasedFrom(ct, i) ==
    IF i > Len(ct) THEN <<>>
    ELSE (IF ct[i] <= 0 THEN <<i - 1>> ELSE <<>>)
           \o NegativeCapsZeroBasedFrom(ct, i + 1)

\* variant: the enumerate() index reported without the + 1
NegativeCapsZeroBased(ct) == NegativeCapsZeroBasedFrom(ct, 1)

RECURSIVE NegativeCapsFrom(_, _)
NegativeCapsFrom(ct, i) ==
    IF i > Len(ct) THEN <<>>
    ELSE (IF ct[i] <= 0 THEN <<i>> ELSE <<>>) \o NegativeCapsFrom(ct, i + 1)

\* the 1-based indices of negative_caps, in order
NegativeCaps(ct) == NegativeCapsFrom(ct, 1)

Result ==
    [f0 |-> args.f0,
     f_low |-> args.f0 - args.bw \div 2,
     f_high |-> args.f0 + args.bw \div 2,
     bw |-> args.bw,
     fbw |-> fbw,
     z0 |-> args.z0,
     n_resonators |-> args.n_resonators,
     filter_type |-> args.filter_type,
     coupling |-> args.coupling,
     ripple_db |-> IF args.filter_type = "chebyshev" THEN <<args.ripple_db>> ELSE None,
     q_safety |-> args.q_safety,
     g_values |-> g_values,
     k_values |-> k_values,
     qe_in |-> qe[1],
     qe_out |-> qe[2],
     L_resonant |-> LC[1],
     C_resonant |-> LC[2],
     c_coupling |-> c_coupling,
     c_tank |-> c_tank,
     q_min |-> calculate_min_q(args.f0, args.bw, args.q_safety),
     warnings |-> warnings]

\* variant: non-positive tank capacitors reported as a warning, not raised
FeasibilityAdvisory ==
    /\ pc = "feasibility"
    /\ UNCHANGED <<matcher_vars, table_vars, driver_vars>>
    /\ warnings' = IF NegativeCaps(c_tank) # <<>>
                      THEN Append(warnings, MsgTank) ELSE warnings
    /\ pc' = "assemble"
    /\ UNCHANGED <<args, fbw, g_values, k_values, qe, LC, c_coupling, c_tank,
                   outcome>>

Feasibility ==
    /\ pc = "feasibility"
    /\ UNCHANGED <<matcher_vars, table_vars, driver_vars>>
    /\ IF NegativeCaps(c_tank) # <<>>
          THEN Raise(ValueErrorCaps(MsgTank, NegativeCaps(c_tank)))
          ELSE pc' = "assemble" /\ UNCHANGED outcome
    /\ UNCHANGED <<args, fbw, warnings, g_values, k_values, qe, LC, c_coupling,
                   c_tank>>

Assemble ==
    /\ pc = "assemble"
    /\ UNCHANGED <<matcher_vars, table_vars, driver_vars>>
    /\ outcome' = Return(Result)
    /\ pc' = "returned"
    /\ UNCHANGED <<args, fbw, warnings, g_values, k_values, qe, LC, c_coupling,
                   c_tank>>

Next ==
    \/ Validate
    \/ Bandwidth
    \/ Prototype
    \/ CouplingQ
    \/ Resonator
    \/ Network
    \/ Feasibility
    \/ Assemble

Spec == Init /\ [][Next]_vars

(***************************************************************************)
(* One call of calculate_bandpass_filter as a value: its frame (position,  *)
(* arguments, locals, outcome), the statement-by-statement step on a frame *)
(* and the call run from entry to exit with nothing else running.          *)
(***************************************************************************)
Frame(a) ==
    [pc |-> "validate", args |-> a, fbw |-> 0, warnings |-> <<>>,
     g_values |-> <<>>, k_values |-> <<>>, qe |-> <<>>, LC |-> <<>>,
     c_coupling |-> <<>>, c_tank |-> <<>>, outcome |-> Pending]

FrameEnded(s) == s.pc \in {"raised", "returned"}

FrameRaise(s, e) == [s EXCEPT !.outcome = e, !.pc = "raised"]

FrameResult(s) ==
    [f0 |-> s.args.f0,
     f_low |-> s.args.f0 - s.args.bw \div 2,
     f_high |-> s.args.f0 + s.args.bw \div 2,
     bw |-> s.args.bw,
     fbw |-> s.fbw,
     z0 |-> s.args.z0,
     n_resonators |-> s.args.n_resonators,
     filter_type |-> s.args.filter_type,
     coupling |-> s.args.coupling,
     ripple_db |-> IF s.args.filter_type = "chebyshev" THEN <<s.args.ripple_db>>
                   ELSE None,
     q_safety |-> s.args.q_safety,
     g_values |-> s.g_values,
     k_values |-> s.k_values,
     qe_in |-> s.qe[1],
     qe_out |-> s.qe[2],
     L_resonant |-> s.LC[1],
     C_resonant |-> s.LC[2],
     c_coupling |-> s.c_coupling,
     c_tank |-> s.c_tank,
     q_min |-> calculate_min_q(s.args.f0, s.args.bw, s.args.q_safety),
     warnings |-> s.warnings]

FrameNetwork(s) ==
    Only({[s EXCEPT !.c_coupling = cc,
                    !.c_tank = calculate_tank_capacitors(s.args.n_resonators,
                                                         s.LC[2], cc,
                                                         s.args.coupling),
                    !.pc = "feasibility"] :
          cc \in {IF s.args.coupling = "top"
                     THEN calculate_coupling_capacitors_top_c(s.k_values, s.LC[2])
                     ELSE calculate_coupling_capacitors_shunt_c(s.k_values,
                                                                s.LC[2])}})

Step(s) ==
    IF s.pc = "validate" THEN
        IF PreValidate(s.args) # Pending THEN FrameRaise(s, PreValidate(s.args))
        ELSE [s EXCEPT !.pc = "bandwidth"]
    ELSE IF s.pc = "bandwidth" THEN
        [s EXCEPT !.fbw = DivFx(s.args.bw, s.args.f0),
                  !.warnings = BandwidthWarnings(s.args.coupling,
                                                 DivFx(s.args.bw, s.args.f0)),
                  !.pc = "prototype"]
    ELSE IF s.pc = "prototype" THEN
        IF PrototypeLookup(s.args).kind = "error"
            THEN FrameRaise(s, PrototypeLookup(s.args))
        ELSE [s EXCEPT !.g_values = PrototypeLookup(s.args).value,
                       !.pc = "couplingq"]
    ELSE IF s.pc = "couplingq" THEN
        [s EXCEPT !.k_values = calculate_coupling_coefficients(s.g_values, s.fbw),
                  !.qe = calculate_external_q(s.g_values, s.fbw),
                  !.pc = "resonator"]
    ELSE IF s.pc = "resonator" THEN
        [s EXCEPT !.LC = Only({<<FlToFx(r[1]), FlToFx(r[2])>> :
                               r \in {calculate_resonator_components(
                                          FlFromFx(s.args.f0),
                                          FlFromFx(s.args.z0))}}),
                  !.pc = "network"]
    ELSE IF s.pc = "network" THEN FrameNetwork(s)
    ELSE IF s.pc = "feasibility" THEN
        IF NegativeCaps(s.c_tank) # <<>>
            THEN FrameRaise(s, ValueErrorCaps(MsgTank, NegativeCaps(s.c_tank)))
        ELSE [s EXCEPT !.pc = "assemble"]
    ELSE IF s.pc = "assemble" THEN
        [s EXCEPT !.outcome = Return(FrameResult(s)), !.pc = "returned"]
    ELSE s

RECURSIVE RunFrame(_)
RunFrame(s) == IF FrameEnded(s) THEN s ELSE RunFrame(Step(s))

\* the outcome of the call run alone
RunAlone(a) == RunFrame(Frame(a)).outcome

\* the frame the synthesis variables hold
CurrentFrame ==
    [pc |-> pc, args |-> args, fbw |-> fbw, warnings |-> warnings,
     g_values |-> g_values, k_values |-> k_values, qe |-> qe, LC |-> LC,
     c_coupling |-> c_coupling, c_tank |-> c_tank, outcome |-> outcome]

(***************************************************************************)
(* The command-line program (bandpass-filter.py).  The option strings are  *)
(* taken as parsed: a frequency, an impedance or a factor is the number    *)
(* its string denotes, None when the option is absent.                     *)
(***************************************************************************)
MAX_FREQUENCY_HZ == FlNorm(1, 12)
MAX_IMPEDANCE_OHMS == FlNorm(1, 6)
SHUNT_C_FBW_LIMIT == 10000
GENERAL_FBW_LIMIT == 40000


\* the largest r with r * r <= p, for lo * lo <= p < hi * hi
RECURSIVE ISqrtSearch(_, _, _)
ISqrtSearch(p, lo, hi) ==
    IF hi - lo <= 1 THEN lo
    ELSE LET mid == (lo + hi) \div 2
         IN  IF mid * mid <= p THEN ISqrtSearch(p, mid, hi)
                               ELSE ISqrtSearch(p, lo, mid)

\* math.sqrt(f_low * f_high) for f_low * f_high >= 0: the grid value nearest
\* to the root (sqrt rounds to nearest)
GeometricMean(f_low, f_high) ==
    LET p == f_low * f_high
        r == ISqrtSearch(p, 0, 46341)
    IN  IF p - r * r > r THEN r + 1 ELSE r

\* Return(<<f0, bw, f_low, f_high>>), or the ValueError raised
validate_and_compute_frequencies(in) ==
    LET has_center_bw == in.frequency # None /\ in.bandwidth # None
        has_low_high == in.f_low # None /\ in.f_high # None
        has_partial_center == (in.frequency # None) # (in.bandwidth # None)
        has_partial_cutoff == (in.f_low # None) # (in.f_high # None)
    IN  IF has_center_bw /\ has_low_high THEN ValueError("Specify either (-f + -b) OR (--fl + --fh), not both")
        ELSE IF ~has_center_bw /\ ~has_low_high THEN
            IF has_partial_center THEN ValueError("Both -f and -b are required together")
            ELSE IF has_partial_cutoff THEN ValueError("Both --fl and --fh are required together")
            ELSE ValueError("Specify frequency as (-f + -b) or (--fl + --fh)")
        ELSE IF has_center_bw THEN
            Return(<<in.frequency[1], in.bandwidth[1],
                     in.frequency[1] - in.bandwidth[1] \div 2,
                     in.frequency[1] + in.bandwidth[1] \div 2>>)
        ELSE IF in.f_low[1] >= in.f_high[1] THEN ValueError("Lower frequency must be less than upper frequency")
        ELSE IF in.f_low[1] * in.f_high[1] < 0 THEN ValueError("math domain error")
        ELSE Return(<<GeometricMean(in.f_low[1], in.f_high[1]),
                      in.f_high[1] - in.f_low[1], in.f_low[1], in.f_high[1]>>)

CliWarnings(coupling, fbw_) ==
    IF coupling = "shunt" /\ fbw_ > SHUNT_C_FBW_LIMIT
        THEN <<"FBW ({fbw*100:.1f}%) exceeds {SHUNT_C_FBW_LIMIT*100:.0f}% limit for Shunt-C topology", "Consider using Top-C (-c top) for wide bandwidth designs">>
    ELSE IF fbw_ > GENERAL_FBW_LIMIT THEN <<"FBW ({fbw*100:.1f}%) exceeds {GENERAL_FBW_LIMIT*100:.0f}% recommended limit", "Results may be inaccurate; consider transmission-line design">>
    ELSE <<>>

\* variant: the Chebyshev order check left to the engine
validate_inputs_any_order(f0, bw, z0, n_resonators, filter_type, ripple, coupling) ==
    IF f0 <= 0 THEN ValueError(MsgF0)
    ELSE IF FlLess(MAX_FREQUENCY_HZ, FlFromFx(f0)) THEN ValueError("Center frequency exceeds {MAX_FREQUENCY_HZ/1e12:.0f} THz limit")
    ELSE IF bw <= 0 THEN ValueError(MsgBw)
    ELSE IF bw >= f0 THEN ValueError(MsgBwF0)
    ELSE IF z0 <= 0 THEN ValueError(MsgZ0)
    ELSE IF FlLess(MAX_IMPEDANCE_OHMS, FlFromFx(z0)) THEN ValueError("Impedance exceeds {MAX_IMPEDANCE_OHMS/1e6:.0f} MOhm limit")
    ELSE IF ~(2 <= n_resonators /\ n_resonators <= 9) THEN ValueError("Resonators must be between 2 and 9")
    ELSE IF DivFx(bw, f0) <= 0 THEN ValueError("Fractional bandwidth must be positive")
    ELSE IF filter_type = "chebyshev" /\ ripple \notin {Ripple01, Ripple05, Ripple10}
        THEN ValueError("Ripple must be 0.1, 0.5, or 1.0 dB")
    ELSE Return(CliWarnings(coupling, DivFx(bw, f0)))

\* Return(warnings), or the ValueError raised
validate_inputs(f0, bw, z0, n_resonators, filter_type, ripple, coupling) ==
    IF f0 <= 0 THEN ValueError(MsgF0)
    ELSE IF FlLess(MAX_FREQUENCY_HZ, FlFromFx(f0)) THEN ValueError("Center frequency exceeds {MAX_FREQUENCY_HZ/1e12:.0f} THz limit")
    ELSE IF bw <= 0 THEN ValueError(MsgBw)
    ELSE IF bw >= f0 THEN ValueError(MsgBwF0)
    ELSE IF z0 <= 0 THEN ValueError(MsgZ0)
    ELSE IF FlLess(MAX_IMPEDANCE_OHMS, FlFromFx(z0)) THEN ValueError("Impedance exceeds {MAX_IMPEDANCE_OHMS/1e6:.0f} MOhm limit")
    ELSE IF ~(2 <= n_resonators /\ n_resonators <= 9) THEN ValueError("Resonators must be between 2 and 9")
    ELSE IF filter_type = "chebyshev" /\ n_resonators % 2 = 0
        THEN ValueErrorArg(MsgOdd, n_resonators)
    ELSE IF DivFx(bw, f0) <= 0 THEN ValueError("Fractional bandwidth must be positive")
    ELSE IF filter_type = "chebyshev" /\ ripple \notin {Ripple01, Ripple05, Ripple10}
        THEN ValueError("Ripple must be 0.1, 0.5, or 1.0 dB")
    ELSE Return(CliWarnings(coupling, DivFx(bw, f0)))

\* the arguments main passes to calculate_bandpass_filter
EngineArgs(c) ==
    [f0 |-> c.f0, bw |-> c.bw, z0 |-> c.input.impedance,
     n_resonators |-> c.input.resonators, filter_type |-> c.input.filter_type,
     coupling |-> c.input.coupling,
     ripple_db |-> IF c.input.filter_type = "chebyshev" THEN c.input.ripple
                   ELSE Ripple05,
     q_safety |-> c.input.q_safety]

\* variant: the center frequency and bandwidth shown recomputed from the cutoffs
OverrideRecomputed(result, f_low, f_high) ==
    [result EXCEPT !.f_low = f_low, !.f_high = f_high,
                   !.f0 = (f_low + f_high) \div 2, !.bw = f_high - f_low]

\* result['f_low'] = f_low; result['f_high'] = f_high
Override(result, f_low, f_high) ==
    [result EXCEPT !.f_low = f_low, !.f_high = f_high]

\* the command lines explored: the frequency options
Given(values) == {<<v>> : v \in values}
CenterFrequencies == {0, 10000, 20000}
CenterBandwidths == {0, 1000, 12000, 25000}
CutoffFrequencies == {0 - 1000, 0, 10000, 10002, 12000, 20000}
FrequencyOptions ==
    [frequency : Given(CenterFrequencies), bandwidth : Given(CenterBandwidths),
     f_low : {None}, f_high : {None}]
    \cup [frequency : {None}, bandwidth : {None},
          f_low : Given(CutoffFrequencies), f_high : Given(CutoffFrequencies)]
    \cup [frequency : {None, <<10000>>}, bandwidth : {None},
          f_low : {None, <<10000>>}, f_high : {None}]
    \cup [frequency : {<<10000>>}, bandwidth : {<<1000>>},
          f_low : {<<10000>>}, f_high : {<<12000>>}]

\* the other options; -n and the filter type and coupling are restricted by
\* the argument parser
CliOrders == 2..9
OtherOptions ==
    [impedance : {0, Scale}, resonators : CliOrders,
     filter_type : {"butterworth", "chebyshev", "bessel"},
     coupling : {"top", "shunt"}, ripple : {Ripple01, Ripple05, 2 * Ripple01},
     q_safety : {0, 2 * Scale}]

CliInput(f, o) ==
    [frequency |-> f.frequency, bandwidth |-> f.bandwidth, f_low |-> f.f_low,
     f_high |-> f.f_high, impedance |-> o.impedance, resonators |-> o.resonators,
     filter_type |-> o.filter_type, coupling |-> o.coupling, ripple |-> o.ripple,
     q_safety |-> o.q_safety]

CliStart(in) ==
    [pc |-> "frequencies", input |-> in, f0 |-> 0, bw |-> 0, f_low |-> 0,
     f_high |-> 0, warnings |-> <<>>, result |-> None, error |-> None,
     at |-> None]

\* print the error, sys.exit(1); at records the statement that raised
CliExit(e) == cli' = [cli EXCEPT !.pc = "exit", !.error = e, !.at = <<cli.pc>>]

noncli_vars == <<synthesis_vars, matcher_vars, table_vars, calls>>

InitCli ==
    /\ cli \in {CliStart(CliInput(f, o)) : f \in FrequencyOptions, o \in OtherOptions}
    /\ calls = <<>>
    /\ e_call = None
    /\ e_result = None
    /\ heap = TableHeap
    /\ refs = {}
    /\ NoSynthesis

CliFrequencies ==
    /\ cli.pc = "frequencies"
    /\ LET r == validate_and_compute_frequencies(cli.input)
       IN  IF r.kind = "error" THEN CliExit(r)
           ELSE cli' = [cli EXCEPT !.f0 = r.value[1], !.bw = r.value[2],
                                   !.f_low = r.value[3], !.f_high = r.value[4],
                                   !.pc = "q_safety"]
    /\ UNCHANGED noncli_vars

CliQSafety ==
    /\ cli.pc = "q_safety"
    /\ IF cli.input.q_safety <= 0 THEN CliExit(ValueError("Q safety factor must be positive"))
       ELSE cli' = [cli EXCEPT !.pc = "validate"]
    /\ UNCHANGED noncli_vars

CliValidate ==
    /\ cli.pc = "validate"
    /\ LET r == validate_inputs(cli.f0, cli.bw, cli.input.impedance,
                                cli.input.resonators, cli.input.filter_type,
                                cli.input.ripple, cli.input.coupling)
       IN  IF r.kind = "error" THEN CliExit(r)
           ELSE cli' = [cli EXCEPT !.warnings = r.value, !.pc = "calculate"]
    /\ UNCHANGED noncli_vars

CliCalculate ==
    /\ cli.pc = "calculate"
    /\ LET r == RunAlone(EngineArgs(cli))
       IN  IF r.kind = "error" THEN CliExit(r)
           ELSE cli' = [cli EXCEPT !.result = r.value, !.pc = "override"]
    /\ UNCHANGED noncli_vars

CliOverride ==
    /\ cli.pc = "override"
    /\ cli' = [cli EXCEPT !.result = Override(cli.result, cli.f_low, cli.f_high),
                          !.pc = "display"]
    /\ UNCHANGED noncli_vars

NextCli ==
    \/ CliFrequencies
    \/ CliQSafety
    \/ CliValidate
    \/ CliCalculate
    \/ CliOverride

SpecCli == InitCli /\ [][NextCli]_vars

(***************************************************************************)
(* Calls of the Standard-Value Matcher                                     *)
(***************************************************************************)
\* bounds of the matcher's argument space
MaxTarget == 18
Targets == {0 - 500, 0, 4700, 9100} \cup {1000 + 500 * k : k \in 0..MaxTarget}
SeriesNames == {"E12", "E24", "E96", "E48"}
RatioLimits == {FlFromInt(10), FlFromInt(1)}

\* E96 pair searches are explored on these targets only
E96Targets == {0, 4700, 9500}

SingleCalls ==
    {[fn |-> "find_closest_single", target |-> FlFromInt(t), series |-> s,
      ratio_limit |-> None] : t \in Targets, s \in SeriesNames}

PairCalls ==
    {[fn |-> f, target |-> FlFromInt(t), series |-> s, ratio_limit |-> r] :
        f \in {"find_parallel_combo", "match_component"},
        t \in Targets, s \in SeriesNames \ {"E96"}, r \in RatioLimits}
    \cup
    {[fn |-> f, target |-> FlFromInt(t), series |-> "E96", ratio_limit |-> r] :
        f \in {"find_parallel_combo", "match_component"},
        t \in E96Targets, r \in RatioLimits}

\* a caller about to call the matcher
InitE ==
    /\ e_call \in SingleCalls \cup PairCalls
    /\ e_result = Pending
    /\ heap = TableHeap
    /\ refs = {}
    /\ NoDriver
    /\ NoSynthesis

CallFindClosestSingle ==
    /\ e_call # None /\ e_result = Pending
    /\ e_call.fn = "find_closest_single"
    /\ e_result' = find_closest_single(e_call.target, e_call.series)
    /\ UNCHANGED <<e_call, synthesis_vars, table_vars, driver_vars>>

CallFindParallelCombo ==
    /\ e_call # None /\ e_result = Pending
    /\ e_call.fn = "find_parallel_combo"
    /\ e_result' = find_parallel_combo(e_call.target, e_call.series,
                                       e_call.ratio_limit)
    /\ UNCHANGED <<e_call, synthesis_vars, table_vars, driver_vars>>

CallMatchComponent ==
    /\ e_call # None /\ e_result = Pending
    /\ e_call.fn = "match_component"
    /\ e_result' = match_component(e_call.target, e_call.series,
                                   e_call.ratio_limit)
    /\ UNCHANGED <<e_call, synthesis_vars, table_vars, driver_vars>>

NextE ==
    \/ CallFindClosestSingle
    \/ CallFindParallelCombo
    \/ CallMatchComponent

SpecE == InitE /\ [][NextE]_vars

(***************************************************************************)
(* The module-level tables as list objects shared with callers             *)
(***************************************************************************)
\* the list objects callers may hold at one time
MaxLists == 2
ListIds == {<<"list", 0, k>> : k \in 1..MaxLists}

\* the filter orders callers ask for
MaxOrder == 3
TableOrders == 1..MaxOrder

\* variant: the table's own list handed out
copy_self(id, fresh) == id

\* list.copy(): the object returned is the fresh one
copy(id, fresh) == fresh

FreshId == CHOOSE id \in ListIds : id \notin DOMAIN heap

\* a function returns the list object ret, holding content when it is new
GiveList(ret, content) ==
    /\ heap' = [x \in DOMAIN heap \cup {ret} |->
                    IF x \in DOMAIN heap THEN heap[x] ELSE content]
    /\ refs' = refs \cup {ret}

\* return TABLE[...].copy()
ReturnCopy(id) == GiveList(copy(id, FreshId), heap[id])

\* get_chebyshev_g_values called directly
LookupChebyshev ==
    /\ ListIds \ DOMAIN heap # {}
    /\ \E n \in TableOrders, ripple_db \in Ripples :
          /\ get_chebyshev_g_values(n, ripple_db).kind = "return"
          /\ ReturnCopy(<<"chebyshev", ripple_db, n>>)
    /\ UNCHANGED <<synthesis_vars, matcher_vars, driver_vars>>

\* get_bessel_g_values called directly
LookupBessel ==
    /\ ListIds \ DOMAIN heap # {}
    /\ \E n \in TableOrders :
          /\ get_bessel_g_values(n).kind = "return"
          /\ ReturnCopy(<<"bessel", 0, n>>)
    /\ UNCHANGED <<synthesis_vars, matcher_vars, driver_vars>>

\* calculate_bandpass_filter called: result['g_values'] is the list the
\* prototype step obtained
SynthesisCall ==
    /\ ListIds \ DOMAIN heap # {}
    /\ \E filter_type \in FilterTypes, n \in TableOrders, ripple_db \in Ripples :
          LET a == [f0 |-> 10000, bw |-> 1000, z0 |-> Scale, n_resonators |-> n,
                    filter_type |-> filter_type, coupling |-> "top",
                    ripple_db |-> ripple_db, q_safety |-> 2 * Scale]
          IN  /\ PreValidate(a) = Pending
              /\ PrototypeLookup(a).kind = "return"
              /\ IF filter_type = "chebyshev"
                    THEN ReturnCopy(<<"chebyshev", ripple_db, n>>)
                 ELSE IF filter_type = "bessel"
                    THEN ReturnCopy(<<"bessel", 0, n>>)
                 ELSE GiveList(FreshId, calculate_butterworth_g_values(n))
    /\ UNCHANGED <<synthesis_vars, matcher_vars, driver_vars>>

\* find_closest_single called: it reads E_SERIES and returns numbers
MatchingCall ==
    /\ \E series \in {"E12", "E24"} :
          /\ e_call' = [fn |-> "find_closest_single", target |-> FlFromInt(4700),
                        series |-> series, ratio_limit |-> None]
          /\ e_result' = find_closest_single(FlFromInt(4700), series)
    /\ UNCHANGED <<synthesis_vars, table_vars, driver_vars>>

\* a caller assigns to an element of a list it was given: g[0] = 0.0
CallerSetItem ==
    /\ \E id \in refs :
          /\ heap[id] # <<>>
          /\ heap' = [heap EXCEPT ![id] = [heap[id] EXCEPT ![1] = 0]]
    /\ UNCHANGED <<synthesis_vars, matcher_vars, refs, driver_vars>>

\* a caller empties a list it was given: g.clear()
CallerClear ==
    /\ \E id \in refs :
          /\ heap[id] # <<>>
          /\ heap' = [heap EXCEPT ![id] = <<>>]
    /\ UNCHANGED <<synthesis_vars, matcher_vars, refs, driver_vars>>

\* a caller drops a list; the object goes unless a table still holds it
CallerDrop ==
    /\ \E id \in refs :
          /\ refs' = refs \ {id}
          /\ heap' = [x \in DOMAIN heap \ ({id} \ TableIds) |-> heap[x]]
    /\ UNCHANGED <<synthesis_vars, matcher_vars, driver_vars>>

InitT ==
    /\ Idle
    /\ NoSynthesis

NextT ==
    \/ LookupChebyshev
    \/ LookupBessel
    \/ SynthesisCall
    \/ MatchingCall
    \/ CallerSetItem
    \/ CallerClear
    \/ CallerDrop

SpecT == InitT /\ [][NextT]_vars

(***************************************************************************)
(* Calls running side by side: every caller runs one synthesis or one      *)
(* matching call; the calls advance statement by statement in any order.   *)
(* The frames are the callers' own; the heap is shared.                    *)
(***************************************************************************)
MaxCalls == 2
Callers == 1..MaxCalls

SideArgs ==
    [f0 : {20000}, bw : {0, 12000}, z0 : {Scale}, n_resonators : {2},
     filter_type : {"butterworth"}, coupling : {"top", "shunt"},
     ripple_db : {Ripple05}, q_safety : {2 * Scale}]

SideMatches ==
    [target : {FlFromInt(4700)}, series : {"E12", "E48"},
     ratio_limit : {FlFromInt(10)}]

\* the frame of a match_component call at entry
MatchFrame(m) ==
    [pc |-> "single", target |-> m.target, series |-> m.series,
     ratio_limit |-> m.ratio_limit, single |-> None, outcome |-> Pending]

\* match_component, statement by statement
MatchStep(s) ==
    IF s.pc = "single" THEN
        IF find_closest_single(s.target, s.series).kind = "error"
            THEN [s EXCEPT !.outcome = find_closest_single(s.target, s.series),
                           !.pc = "raised"]
        ELSE [s EXCEPT !.single = find_closest_single(s.target, s.series).value,
                       !.pc = "parallel"]
    ELSE IF s.pc = "parallel" THEN
        Only({IF parallel_result.kind = "error"
                  THEN [s EXCEPT !.outcome = parallel_result, !.pc = "raised"]
              ELSE IF parallel_result.value # None
                  THEN [s EXCEPT !.outcome =
                                     Return(ESeriesMatch(s.target, s.single[1],
                                                         s.single[2],
                                                         parallel_result.value[1],
                                                         parallel_result.value[2],
                                                         parallel_result.value[3])),
                                 !.pc = "returned"]
              ELSE [s EXCEPT !.outcome =
                                 Return(ESeriesMatch(s.target, s.single[1],
                                                     s.single[2], None, None, None)),
                             !.pc = "returned"] :
              parallel_result \in {find_parallel_combo(s.target, s.series,
                                                       s.ratio_limit)}})
    ELSE s

StartCalls ==
    {[fn |-> "calculate_bandpass_filter", frame |-> Frame(a)] : a \in SideArgs}
    \cup {[fn |-> "match_component", frame |-> MatchFrame(m)] : m \in SideMatches}

\* variant: one module-level list serves as the warnings list of every call
NewList_module_level(c) == <<"warnings", 0, 0>>

\* warnings = []: the list object call c creates
NewList(c) == <<"warnings", 0, c>>

\* the frame of caller c, its warnings read through the list object
SideView(c) ==
    [calls[c].frame EXCEPT
        !.warnings = IF NewList(c) \in DOMAIN heap THEN heap[NewList(c)] ELSE <<>>]

SideEnded(c) == calls[c].frame.pc \in {"raised", "returned"}

\* what the call of caller c raised or returned; the dict returned refers to
\* the warnings list
SideOutcome(c) ==
    IF calls[c].fn = "calculate_bandpass_filter" /\ calls[c].frame.pc = "returned"
        THEN Return([calls[c].frame.outcome.value EXCEPT
                        !.warnings = heap[NewList(c)]])
    ELSE calls[c].frame.outcome

\* the outcome of every call explored when it is made alone
SynthesisAlone == [a \in SideArgs |-> RunAlone(a)]
MatchAlone ==
    [m \in SideMatches |-> match_component(m.target, m.series, m.ratio_limit)]

\* the outcome of the call of caller c made alone
SideAlone(c) ==
    IF calls[c].fn = "calculate_bandpass_filter"
        THEN SynthesisAlone[calls[c].frame.args]
    ELSE MatchAlone[[target |-> calls[c].frame.target,
                     series |-> calls[c].frame.series,
                     ratio_limit |-> calls[c].frame.ratio_limit]]

InitSide ==
    /\ calls \in [Callers -> StartCalls]
    /\ cli = None
    /\ e_call = None
    /\ e_result = None
    /\ heap = TableHeap
    /\ refs = {}
    /\ NoSynthesis

SynthesisStep ==
    /\ \E c \in Callers :
          /\ calls[c].fn = "calculate_bandpass_filter"
          /\ ~SideEnded(c)
          /\ calls' = [calls EXCEPT ![c].frame = Step(SideView(c))]
          /\ heap' = IF calls[c].frame.pc = "bandwidth"
                        THEN [x \in DOMAIN heap \cup {NewList(c)} |->
                                 IF x = NewList(c) THEN Step(SideView(c)).warnings
                                 ELSE heap[x]]
                     ELSE heap
    /\ UNCHANGED <<synthesis_vars, matcher_vars, refs, cli>>

MatchingStep ==
    /\ \E c \in Callers :
          /\ calls[c].fn = "match_component"
          /\ ~SideEnded(c)
          /\ calls' = [calls EXCEPT ![c].frame = MatchStep(calls[c].frame)]
    /\ UNCHANGED <<synthesis_vars, matcher_vars, table_vars, cli>>

NextSide ==
    \/ SynthesisStep
    \/ MatchingStep

SpecSide == InitSide /\ [][NextSide]_vars

(***************************************************************************)
(* Properties                                                              *)
(***************************************************************************)
IsError(o) == o.kind = "error"
IsUnrealizable(o) == o.kind = "error" /\ o.msg = MsgTank
IsConfigError(o) == o.kind = "error" /\ o.msg # MsgTank
Elems(q) == {q[j] : j \in DOMAIN q}
Ended == pc \in {"raised", "returned"}

\* C1: when pre-validation and the prototype lookup pass, the call ends with
\* the physically-unrealizable error exactly when some compensated tank
\* capacitance is <= 0, and the error names exactly the 1-based indices of
\* the tanks with capacitance <= 0.
C1_UnrealizableIffNonPositiveTank ==
    (Ended /\ PreValidate(args) = Pending /\ PrototypeLookup(args).kind = "return")
    => /\ Len(c_tank) = args.n_resonators
       /\ IsUnrealizable(outcome) <=> (\E i \in 1..Len(c_tank) : c_tank[i] <= 0)
       /\ IsError(outcome) =>
            Elems(outcome.caps) = {i \in 1..Len(c_tank) : c_tank[i] <= 0}
       /\ ~IsConfigError(outcome)

C1_Witness ==
    /\ pc = "raised"
    /\ IsUnrealizable(outcome)
    /\ args.n_resonators = 5
    /\ outcome.caps = <<1, 2>>
    /\ c_tank[1] <= 0 /\ c_tank[2] <= 0
    /\ \A i \in 3..5 : c_tank[i] > 0

\* C2: a returned result for n resonators has n g-values, n-1 coupling
\* coefficients, n-1 coupling capacitors and n tank capacitors, all coupling
\* coefficients, coupling capacitors and tank capacitors are > 0, and the
\* fields f0, bw, z0, n_resonators, filter_type, coupling, q_safety equal
\* the arguments, with fbw = bw / f0.
C2_ResultShape ==
    (outcome.kind = "return") =>
        LET r == outcome.value
            n == args.n_resonators
        IN  /\ Len(r.g_values) = n
            /\ Len(r.k_values) = n - 1
            /\ Len(r.c_coupling) = n - 1
            /\ Len(r.c_tank) = n
            /\ \A i \in 1..(n - 1) : r.k_values[i] > 0 /\ r.c_coupling[i] > 0
            /\ \A i \in 1..n : r.c_tank[i] > 0
            /\ r.f0 = args.f0 /\ r.bw = args.bw /\ r.z0 = args.z0
            /\ r.n_resonators = n
            /\ r.filter_type = args.filter_type
            /\ r.coupling = args.coupling
            /\ r.q_safety = args.q_safety
            /\ MulFx(r.fbw, args.f0) <= args.bw
            /\ args.bw <= MulFx(r.fbw + 1, args.f0)

C2_Witness ==
    /\ pc = "returned"
    /\ outcome.kind = "return"
    /\ args.n_resonators = 9
    /\ args.q_safety = Scale
    /\ Len(outcome.value.c_tank) = 9
    /\ Len(outcome.value.k_values) = 8

C3Checks(a) ==
    <<a.f0 > 0, a.bw > 0, a.bw < a.f0, a.z0 > 0,
      a.n_resonators \in 2..9,
      a.filter_type \in {"butterworth", "chebyshev", "bessel"},
      a.coupling \in {"top", "shunt"}>>

C3Messages == <<MsgF0, MsgBw, MsgBwF0, MsgZ0, MsgN, MsgType, MsgCoupling>>

C3FirstFailing(a) ==
    CHOOSE j \in 1..7 : ~C3Checks(a)[j] /\ \A h \in 1..(j - 1) : C3Checks(a)[h]

\* C3: once pre-validation has run, if any of the seven checks fails the call
\* has raised the error of the first failing check (in the order f0, bw,
\* bw < f0, z0, resonator count, filter type, coupling) with no lookup or
\* computation done; if all hold, no pre-validation error is raised.
C3_PreValidationOrder ==
    (pc # "validate") =>
        IF \E j \in 1..7 : ~C3Checks(args)[j]
        THEN /\ pc = "raised"
             /\ outcome = ValueError(C3Messages[C3FirstFailing(args)])
             /\ fbw = 0 /\ warnings = <<>> /\ g_values = <<>> /\ k_values = <<>>
             /\ qe = <<>> /\ LC = <<>> /\ c_coupling = <<>> /\ c_tank = <<>>
        ELSE IsError(outcome) => outcome.msg \notin Elems(C3Messages)

C3_Witness ==
    /\ pc = "raised"
    /\ args.f0 > 0 /\ args.bw >= args.f0
    /\ args.z0 = 0
    /\ args.n_resonators = 1
    /\ args.filter_type = "elliptic"
    /\ args.coupling = "mutual"
    /\ outcome.msg = MsgBwF0

\* C4: a Chebyshev call with an even resonator count never gets past the
\* prototype lookup, never returns a result, and when it has ended it has
\* ended with a configuration error, never the physically-unrealizable one.
C4_EvenChebyshevFails ==
    (args.filter_type = "chebyshev" /\ args.n_resonators % 2 = 0) =>
        /\ pc \in {"validate", "bandwidth", "prototype", "raised"}
        /\ outcome.kind # "return"
        /\ ~IsUnrealizable(outcome)
        /\ pc = "raised" => IsConfigError(outcome)

C4_Witness ==
    /\ pc = "raised"
    /\ args.filter_type = "chebyshev"
    /\ args.n_resonators = 4
    /\ args.ripple_db = Ripple05
    /\ PreValidate(args) = Pending
    /\ fbw > WideLimit
    /\ IsConfigError(outcome)
    /\ outcome.msg = MsgOdd

RaisedByChebyshevLookup ==
    /\ pc = "raised"
    /\ args.filter_type = "chebyshev"
    /\ outcome.msg \in {MsgRipple, MsgOdd}

\* C5 as stated: every failure of get_chebyshev_g_values explains that
\* equal-termination Chebyshev needs an odd resonator count.
C5_Original ==
    RaisedByChebyshevLookup => outcome.msg = MsgOdd

\* C5 amended: when the ripple is tabulated and the order is not, the error
\* explains the odd-count requirement and names the order; when the ripple
\* is not tabulated (whatever the order) the error instead names the ripple
\* and lists the supported ripples.
C5_ChebyshevLookupError ==
    (pc = "raised" /\ PreValidate(args) = Pending
       /\ args.filter_type = "chebyshev" /\ ~IsUnrealizable(outcome))
    => IF args.ripple_db \in {Ripple01, Ripple05, Ripple10}
       THEN outcome.msg = MsgOdd /\ outcome.arg = <<args.n_resonators>>
            /\ args.n_resonators \notin {3, 5, 7, 9}
       ELSE outcome.msg = MsgRipple /\ outcome.arg = <<args.ripple_db>>

C5_Witness ==
    /\ RaisedByChebyshevLookup
    /\ args.ripple_db \notin {Ripple01, Ripple05, Ripple10}
    /\ args.n_resonators = 4
    /\ outcome.msg = MsgRipple

C6PcOrder ==
    /\ pc = "validate" => pc' \in {"bandwidth", "raised"}
    /\ pc = "bandwidth" => pc' = "prototype"
    /\ pc = "prototype" => pc' \in {"couplingq", "raised"}
    /\ pc = "couplingq" => pc' = "resonator"
    /\ pc = "resonator" => pc' = "network"
    /\ pc = "network" => pc' = "feasibility"
    /\ pc = "feasibility" => pc' \in {"assemble", "raised"}
    /\ pc = "assemble" => pc' = "returned"
    /\ pc \in {"raised", "returned"} => pc' = pc

C6FailureEnds ==
    /\ (pc = "validate" /\ \E j \in 1..7 : ~C3Checks(args)[j])
         => pc' = "raised" /\ outcome'.msg \in Elems(C3Messages)
    /\ (pc = "validate" /\ pc' = "raised") => \E j \in 1..7 : ~C3Checks(args)[j]
    /\ (pc = "prototype" /\ pc' = "raised")
         => outcome'.msg \in {MsgRipple, MsgOdd, MsgBessel} /\ g_values' = <<>>
    /\ (pc = "prototype" /\ pc' # "raised") => g_values' # <<>>
    /\ (pc = "feasibility" /\ \E i \in DOMAIN c_tank : c_tank[i] <= 0)
         => pc' = "raised" /\ outcome'.msg = MsgTank
    /\ (pc = "feasibility" /\ pc' = "raised") => \E i \in DOMAIN c_tank : c_tank[i] <= 0
    /\ pc' = "raised" => DOMAIN outcome' = {"kind", "msg", "arg", "caps"}
    /\ pc' # "raised" => ~IsError(outcome')

C6Unrealizable ==
    IsUnrealizable(outcome) =>
        /\ \A j \in 1..7 : C3Checks(args)[j]
        /\ Len(g_values) = args.n_resonators
        /\ k_values # <<>> /\ LC # <<>> /\ c_coupling # <<>> /\ c_tank # <<>>

\* C6: the steps run in the order pre-validation, (bandwidth warnings,)
\* prototype lookup, coupling/Q, resonator, coupling network, feasibility,
\* assembly; a failing step ends the call at once with its own error and the
\* raised error carries no result and no warnings; the physically-
\* unrealizable error occurs only after every pre-validation check passed
\* and the prototype lookup produced the g-values.
C6_StepOrder ==
    /\ [][C6PcOrder /\ C6FailureEnds]_vars
    /\ [](C6Unrealizable)

C6_Witness ==
    /\ pc = "raised"
    /\ IsUnrealizable(outcome)
    /\ warnings = <<MsgShunt, MsgWide>>
    /\ args.filter_type = "chebyshev"
    /\ "warnings" \notin DOMAIN outcome

\* C7: a returned result's warnings hold the Shunt-C warning exactly when
\* coupling = shunt and fbw > 0.10, the 40% warning exactly when fbw > 0.40,
\* the Shunt-C warning first when both apply, and nothing else.
C7_Warnings ==
    (outcome.kind = "return") =>
        LET w == outcome.value.warnings
            f == outcome.value.fbw
        IN  /\ (MsgShunt \in Elems(w)) <=> (args.coupling = "shunt" /\ f > ShuntLimit)
            /\ (MsgWide \in Elems(w)) <=> (f > WideLimit)
            /\ Elems(w) \subseteq {MsgShunt, MsgWide}
            /\ Len(w) = Cardinality(Elems(w))
            /\ \A i, j \in DOMAIN w : (w[i] = MsgShunt /\ w[j] = MsgWide) => i < j

C7_Witness ==
    /\ pc = "returned"
    /\ args.filter_type = "butterworth"
    /\ args.n_resonators = 2
    /\ args.coupling = "shunt"
    /\ outcome.value.fbw > WideLimit
    /\ outcome.value.warnings = <<MsgShunt, MsgWide>>

KComputed == pc \in {"resonator", "network", "feasibility", "assemble", "returned"}
                \/ (pc = "raised" /\ IsUnrealizable(outcome))

\* C8 as stated: for every prototype the provider can produce and every
\* fbw in (0, 0.4], every coupling coefficient is < 1.
C8_Original ==
    (KComputed /\ fbw > 0 /\ fbw <= WideLimit) =>
        \A i \in DOMAIN k_values : k_values[i] < Scale

\* C8 amended: for Butterworth orders 2-9, every tabulated Chebyshev
\* ripple/order and Bessel orders 2 and 3, and every fbw in (0, 0.4], every
\* coupling coefficient is < 1; for Bessel orders 4-9 the first coupling
\* coefficient is >= 1 at fbw = 0.4.
C8_CouplingBelowOne ==
    (KComputed /\ fbw > 0 /\ fbw <= WideLimit) =>
        /\ (args.filter_type \in {"butterworth", "chebyshev"} \/ args.n_resonators <= 3)
             => \A i \in DOMAIN k_values : k_values[i] < Scale
        /\ (args.filter_type = "bessel" /\ args.n_resonators >= 4 /\ fbw = WideLimit)
             => k_values[1] >= Scale

C8_Witness ==
    /\ KComputed
    /\ args.filter_type = "bessel"
    /\ args.n_resonators = 3
    /\ fbw = WideLimit
    /\ Len(k_values) = 2
    /\ k_values[1] > Scale \div 2
    /\ \A i \in 1..2 : k_values[i] < Scale

RECURSIVE SumSeq(_)
SumSeq(q) == IF q = <<>> THEN 0 ELSE Head(q) + SumSeq(Tail(q))

TankComputed == pc \in {"feasibility", "assemble", "returned"}
                   \/ (pc = "raised" /\ IsUnrealizable(outcome))

\* C9: the n tank capacitors are Cp_1 = C - Cs_1, Cp_n = C - Cs_{n-1} and
\* Cp_i = C - Cs_{i-1} - Cs_i for 1 < i < n, so that the sum of the Cp_i is
\* n*C - 2*sum(Cs).
C9_TankCompensation ==
    TankComputed =>
        LET n == args.n_resonators
            C == LC[2]
        IN  /\ Len(c_coupling) = n - 1
            /\ Len(c_tank) = n
            /\ c_tank[1] = C - c_coupling[1]
            /\ c_tank[n] = C - c_coupling[n - 1]
            /\ \A i \in 2..(n - 1) : c_tank[i] = C - c_coupling[i - 1] - c_coupling[i]
            /\ SumSeq(c_tank) = n * C - 2 * SumSeq(c_coupling)

C9_Witness ==
    /\ pc = "returned"
    /\ args.n_resonators = 4
    /\ c_tank[2] = LC[2] - c_coupling[1] - c_coupling[2]
    /\ c_tank[2] < c_tank[1]
    /\ c_coupling[1] > 0 /\ c_coupling[2] > 0 /\ c_coupling[1] # c_coupling[2]

\* q is numerator / denominator rounded down to the grid
IsQuotient(q, numerator, denominator) ==
    MulFx(q, denominator) <= numerator /\ numerator <= MulFx(q + 1, denominator)

AbsDiff(a, b) == IF a >= b THEN a - b ELSE b - a

\* C10: there are n-1 coupling coefficients with k_i = fbw / sqrt(g_i*g_{i+1}),
\* i.e. k_i*k_i*g_i*g_{i+1} = fbw*fbw up to the rounding of the grid; the
\* external Qs are (g_1 / fbw, g_n / fbw); a single g-value gives no coupling
\* coefficient and equal external Qs; the coupling capacitors are
\* Cs_i = k_i * C_resonant, one per adjacent pair.
C10_CouplingFormulas ==
    KComputed =>
        LET n == Len(g_values)
        IN  /\ n >= 1 /\ fbw > 0
            /\ Len(k_values) = n - 1
            /\ \A i \in 1..(n - 1) :
                 LET gg == MulFx(g_values[i], g_values[i + 1])
                     r == SqrtFx(gg)
                 IN  /\ MulFx(r, r) <= gg /\ gg < MulFx(r + 1, r + 1)
                     /\ IsQuotient(k_values[i], fbw, r)
                     /\ AbsDiff(MulFx(MulFx(k_values[i], k_values[i]), gg),
                                MulFx(fbw, fbw)) <= Scale \div 1000
            /\ IsQuotient(qe[1], g_values[1], fbw)
            /\ IsQuotient(qe[2], g_values[n], fbw)
            /\ calculate_coupling_coefficients(<<g_values[n]>>, fbw) = <<>>
            /\ calculate_external_q(<<g_values[n]>>, fbw) = <<qe[2], qe[2]>>
            /\ (c_coupling # <<>>) =>
                 /\ Len(c_coupling) = n - 1
                 /\ \A i \in 1..(n - 1) : c_coupling[i] = MulFx(k_values[i], LC[2])

C10_Witness ==
    /\ pc = "returned"
    /\ args.filter_type = "bessel"
    /\ args.n_resonators = 3
    /\ Len(k_values) = 2
    /\ qe[1] # qe[2]
    /\ k_values[1] # k_values[2]
    /\ c_coupling[1] = MulFx(k_values[1], LC[2])

GComputed == pc \in {"couplingq", "resonator", "network", "feasibility",
                     "assemble", "returned"}
                \/ (pc = "raised" /\ IsUnrealizable(outcome))

\* the published Butterworth table of verify_calculations and its tolerance
ButterworthExpected ==
    [n \in {3, 5, 7, 9} |->
        CASE n = 3 -> <<100000, 200000, 100000>>
          [] n = 5 -> <<61803, 161803, 200000, 161803, 61803>>
          [] n = 7 -> <<44504, 124698, 180194, 200000, 180194, 124698, 44504>>
          [] n = 9 -> <<34730, 100000, 153209, 187939, 200000, 187939, 153209,
                        100000, 34730>>]

ButterworthTol == 10

\* C11: for every order n in 2..9 the Butterworth g-values are n values,
\* symmetric (g_i = g_{n+1-i} within 0.0001), each in (0, 2], and for
\* n in {3, 5, 7, 9} within 0.0001 of the published table.
C11_ButterworthValues ==
    (GComputed /\ args.filter_type = "butterworth") =>
        LET n == args.n_resonators
        IN  /\ n \in 2..9
            /\ Len(g_values) = n
            /\ \A i \in 1..n :
                 /\ g_values[i] > 0 /\ g_values[i] <= 2 * Scale
                 /\ AbsDiff(g_values[i], g_values[n + 1 - i]) <= ButterworthTol
            /\ n \in DOMAIN ButterworthExpected =>
                 \A i \in 1..n :
                    AbsDiff(g_values[i], ButterworthExpected[n][i]) <= ButterworthTol

C11_Witness ==
    /\ pc = "couplingq"
    /\ args.filter_type = "butterworth"
    /\ args.n_resonators = 9
    /\ g_values[5] = 2 * Scale
    /\ g_values[1] < g_values[2]
    /\ AbsDiff(g_values[2], g_values[8]) <= ButterworthTol

\* C12: a successful Chebyshev lookup returns exactly `order` values, the
\* table entry of its ripple and order (order 5 at 0.5 dB:
\* 1.70582, 1.22961, 2.54088, 1.22961, 1.70582); a successful Bessel lookup
\* returns exactly `order` values for every order in 2..9, and the Bessel
\* lookup fails for every order outside 2..9.
C12_TableLookups ==
    /\ (GComputed /\ args.filter_type = "chebyshev") =>
          /\ args.ripple_db \in {Ripple01, Ripple05, Ripple10}
          /\ args.n_resonators \in {3, 5, 7, 9}
          /\ Len(g_values) = args.n_resonators
          /\ g_values = CHEBYSHEV_G_VALUES[args.ripple_db][args.n_resonators]
          /\ (args.ripple_db = Ripple05 /\ args.n_resonators = 5) =>
                g_values = <<170582, 122961, 254088, 122961, 170582>>
    /\ (GComputed /\ args.filter_type = "bessel") =>
          /\ Len(g_values) = args.n_resonators
          /\ g_values = BESSEL_G_VALUES[args.n_resonators]
    /\ \A r \in {Ripple01, Ripple05, Ripple10}, n \in {3, 5, 7, 9} :
          Len(CHEBYSHEV_G_VALUES[r][n]) = n
    /\ (args.n_resonators \in 2..9) =>
          /\ get_bessel_g_values(args.n_resonators).kind = "return"
          /\ Len(get_bessel_g_values(args.n_resonators).value) = args.n_resonators
    /\ (args.n_resonators \notin 2..9) =>
          get_bessel_g_values(args.n_resonators) = ValueErrorArg(MsgBessel, args.n_resonators)

C12_Witness ==
    /\ pc = "couplingq"
    /\ args.filter_type = "chebyshev"
    /\ args.ripple_db = Ripple10
    /\ args.n_resonators = 7
    /\ g_values = <<216664, 111148, 309373, 117349, 309373, 111148, 216664>>

\* a and b agree to within one part per million of b
FlClose(a, b) == FlLess(FlMul(FlAbsDiff(a, b), FlFromInt(1000000)), b)

\* the resonance check of verify_calculations: error_ppm < 1
ResonanceVerified(f0, z0) ==
    LET r == calculate_resonator_components(f0, z0)
        calc_f0 == FlDiv(FlOne, FlMul(FlTwoPi, FlSqrt(FlMul(r[1], r[2]))))
        error_ppm == FlMul(FlDiv(FlAbsDiff(calc_f0, f0), f0), FlFromInt(1000000))
    IN  FlLess(error_ppm, FlOne)

ResonatorIdentities(f0, z0) ==
    LET r == calculate_resonator_components(f0, z0)
        omega0 == FlMul(FlTwoPi, f0)
    IN  /\ FlClose(FlMul(r[1], omega0), z0)
        /\ FlClose(FlMul(r[2], FlMul(omega0, z0)), FlOne)
        /\ FlClose(FlMul(FlMul(r[1], r[2]), FlMul(omega0, omega0)), FlOne)
        /\ FlClose(FlDiv(r[1], r[2]), FlMul(z0, z0))
        /\ ResonanceVerified(f0, z0)

\* C13: for f0 > 0 and z0 > 0 the resonator pair satisfies L = z0/(2*pi*f0)
\* and C = 1/(2*pi*f0*z0), hence L*C*(2*pi*f0)^2 = 1 and L/C = z0^2, and
\* 1/(2*pi*sqrt(L*C)) reproduces f0 to within 1 part per million; checked at
\* the call's own f0 and z0, at the same f0 read in kHz-sized units with
\* 50, 75 and 600 ohm, and at the 7 MHz / 50 ohm case of verify_calculations.
C13_Resonance ==
    (pc = "network") =>
        /\ args.f0 > 0 /\ args.z0 > 0
        /\ ResonatorIdentities(FlFromFx(args.f0), FlFromFx(args.z0))
        /\ \A z \in {50, 75, 600} :
              ResonatorIdentities(FlFromInt(args.f0 + args.bw), FlFromInt(z))
        /\ ResonanceVerified(FlFromInt(7000000), FlFromInt(50))
        /\ LC = <<FlToFx(calculate_resonator_components(FlFromFx(args.f0),
                                                        FlFromFx(args.z0))[1]),
                  FlToFx(calculate_resonator_components(FlFromFx(args.f0),
                                                        FlFromFx(args.z0))[2])>>
        /\ LC[1] > 0 /\ LC[2] > 0

C13_Witness ==
    /\ pc = "network"
    /\ args.f0 = 20000
    /\ args.bw = 3000
    /\ args.z0 = Scale
    /\ LC[1] = LC[2]
    /\ LC[2] > 79000 /\ LC[2] < 80000
    /\ ResonanceVerified(FlFromInt(23000), FlFromInt(75))

(***************************************************************************)
(* Standard-Value Matcher properties (SpecE)                               *)
(***************************************************************************)
\* the call of fn has ended
Called(fn) == e_call # None /\ e_call.fn = fn /\ e_result # Pending
Returned(fn) == Called(fn) /\ e_result.kind = "return"

\* the standard values of a series in the decades from..to
StandardValues(series, from, to) ==
    {denormalize(E_SERIES[series][i], d) : i \in 1..Len(E_SERIES[series]), d \in from..to}

DecadeOf(target) == normalize(target).value[2]

\* C14: for target > 0 and a known series the value find_closest_single
\* returns is a standard value whose percent error is reported and is <= the
\* percent error of every standard value in the target's decade and both
\* adjacent decades; a target that is itself a standard value of its decade
\* is returned with 0% error.
C14_ClosestSingle ==
    Called("find_closest_single") /\ e_call.target.m > 0
        /\ e_call.series \in DOMAIN E_SERIES =>
        LET target == e_call.target
            decade == DecadeOf(target)
        IN  /\ e_result.kind = "return"
            /\ e_result.value[1] \in StandardValues(e_call.series, decade - 1, decade + 1)
            /\ e_result.value[2] = error_pct(e_result.value[1], target)
            /\ \A v \in StandardValues(e_call.series, decade - 1, decade + 1) :
                  FlLessEq(e_result.value[2], error_pct(v, target))
            /\ target \in StandardValues(e_call.series, decade, decade) =>
                  e_result.value = <<target, FlFromInt(0)>>

\* 9500 in E12: the first value of the next decade beats 8200
C14_Witness ==
    /\ Returned("find_closest_single")
    /\ e_call.target = FlFromInt(9500)
    /\ e_call.series = "E12"
    /\ e_result.value[1] = FlFromInt(10000)
    /\ FlLess(e_result.value[2], error_pct(FlFromInt(8200), e_call.target))

\* the pair a pair search or a match returned, None without one
ReturnedPair ==
    IF Returned("find_parallel_combo") /\ e_result.value # None
        THEN e_result.value[1]
    ELSE IF Returned("match_component") THEN e_result.value.parallel
    ELSE None

\* C15: every pair (V1, V2) returned by find_parallel_combo or held in
\* ESeriesMatch.parallel satisfies max(V1, V2) / min(V1, V2) <= ratio_limit.
C15_RatioLimit ==
    ReturnedPair # None =>
        FlLessEq(FlDiv(FlMax(ReturnedPair[1], ReturnedPair[2]),
                       FlMin(ReturnedPair[1], ReturnedPair[2])),
                 e_call.ratio_limit)

\* a pair found under ratio_limit = 1: two equal values
C15_Witness ==
    /\ Returned("match_component")
    /\ e_call.ratio_limit = FlFromInt(1)
    /\ e_call.target = FlFromInt(1000)
    /\ ReturnedPair = <<FlFromInt(2000), FlFromInt(2000)>>

\* the standard value closest to the V2 that V1 needs to make target
RoundedV2(v1, target, series) ==
    find_closest_single(FlDiv(FlMul(v1, target), FlAbsDiff(v1, target)),
                        series).value[1]

ParallelValue(v1, v2) == FlDiv(FlMul(v1, v2), FlAdd(v1, v2))

\* the V1 a pair search may use: standard values of decade-1 .. decade+2
\* above the target whose pair passes the ratio constraint
AdmissibleV1(target, series, ratio_limit) ==
    {v1 \in StandardValues(series, DecadeOf(target) - 1, DecadeOf(target) + 2) :
        /\ FlLess(target, v1)
        /\ FlLessEq(FlDiv(FlMax(v1, RoundedV2(v1, target, series)),
                          FlMin(v1, RoundedV2(v1, target, series))),
                    ratio_limit)}

\* C16: a pair (V1, V2) returned by find_parallel_combo has V1 a standard
\* value of decade-1 .. decade+2 above the target, V2 the closest single value
\* to V1*target/(V1-target), the reported value V1*V2/(V1+V2) and the reported
\* error its percent error, and no admissible V1 gives a smaller error.
C16_BestPair ==
    Returned("find_parallel_combo") /\ e_result.value # None =>
        LET target == e_call.target
            series == e_call.series
            V1 == e_result.value[1][1]
            V2 == e_result.value[1][2]
        IN  /\ V1 \in AdmissibleV1(target, series, e_call.ratio_limit)
            /\ V2 = RoundedV2(V1, target, series)
            /\ e_result.value[2] = ParallelValue(V1, V2)
            /\ e_result.value[3] = error_pct(ParallelValue(V1, V2), target)
            /\ \A w \in AdmissibleV1(target, series, e_call.ratio_limit) :
                  FlLessEq(e_result.value[3],
                           error_pct(ParallelValue(w, RoundedV2(w, target, series)),
                                     target))

\* 4700 in E24: 8200 || 11000 = 4697.9, better than 5600 || 30000 = 4719.1
C16_Witness ==
    /\ Returned("find_parallel_combo")
    /\ e_call.target = FlFromInt(4700)
    /\ e_call.series = "E24"
    /\ e_call.ratio_limit = FlFromInt(10)
    /\ e_result.value # None
    /\ e_result.value[1] = <<FlFromInt(8200), FlFromInt(11000)>>
    /\ FlFromInt(5600) \in AdmissibleV1(e_call.target, "E24", e_call.ratio_limit)
    /\ FlLess(e_result.value[3],
              error_pct(ParallelValue(FlFromInt(5600), FlFromInt(30000)),
                        e_call.target))

C18_ParallelOnlyIfBetter ==
    Returned("match_component") /\ e_result.value.parallel # None =>
        FlLess(e_result.value.parallel_error_pct, e_result.value.single_error_pct)

MatcherFunctions == {"find_closest_single", "find_parallel_combo", "match_component"}

\* C19: each of the three matcher functions raises (and returns nothing) when
\* the series is not E12, E24 or E96 or the target is <= 0; an unknown series
\* is reported even when the target is invalid too; with a known series and a
\* target > 0 none of them raises.
C19_MatcherErrors ==
    \A fn \in MatcherFunctions :
        Called(fn) =>
            IF e_call.series \notin {"E12", "E24", "E96"}
                THEN /\ e_result.kind = "error"
                     /\ e_result.msg = MsgSeries
                     /\ e_result.arg = <<e_call.series>>
            ELSE IF e_call.target.m <= 0
                THEN e_result.kind = "error" /\ e_result.msg = MsgPositive
            ELSE e_result.kind = "return"

\* an unknown series together with a non-positive target
C19_Witness ==
    /\ Called("match_component")
    /\ e_call.series = "E48"
    /\ e_call.target.m < 0
    /\ e_result.kind = "error"
    /\ e_result.msg = MsgSeries

(***************************************************************************)
(* Table properties (SpecT)                                                *)
(***************************************************************************)
\* C20: whatever lookups, synthesis calls and matching calls were made and
\* whatever callers did to the lists they were given, every list of
\* CHEBYSHEV_G_VALUES, BESSEL_G_VALUES and E_SERIES holds its initial
\* contents, and no caller holds a table's own list.
C20_TablesIntact ==
    /\ \A id \in TableIds : id \in DOMAIN heap /\ heap[id] = TableContent(id)
    /\ refs \cap TableIds = {}

\* a caller zeroed the first element of the Bessel n = 2 list it was given and
\* emptied a Chebyshev list, after a matching call
C20_Witness ==
    /\ \E id \in refs : heap[id] = <<0, BESSEL_G_VALUES[2][2]>>
    /\ \E id \in refs : heap[id] = <<>>
    /\ e_call # None
    /\ heap[<<"bessel", 0, 2>>] = BESSEL_G_VALUES[2]

\* the call with one argument replaced
WithQSafety(a, q) == [a EXCEPT !.q_safety = q]

\* C23: every successful synthesis returns q_min = (f0 / bw) * q_safety, and
\* the safety factor, whatever its sign, never decides whether the call
\* succeeds: the call with the default factor 2.0 ends the same way, with the
\* same error or with a result equal in every field but q_safety and q_min.
C23_MinQAdvisory ==
    Ended =>
        /\ pc = "returned" =>
              outcome.value.q_min
                  = MulFx(DivFx(args.f0, args.bw), args.q_safety)
        /\ LET other == RunAlone(WithQSafety(args, 2 * Scale))
           IN  /\ other.kind = outcome.kind
               /\ outcome.kind = "error" => other = outcome
               /\ outcome.kind = "return" =>
                     [other.value EXCEPT !.q_safety = args.q_safety,
                                         !.q_min = outcome.value.q_min]
                         = outcome.value

C23_Witness ==
    /\ pc = "returned"
    /\ args.q_safety < 0
    /\ outcome.value.q_min < 0

WithRipple(a, r) == [a EXCEPT !.ripple_db = r]

\* a ripple different from r: 0.5 dB, or 0.2 dB, which is not tabulated
OtherRipple(r) == IF r = Ripple05 THEN 2 * Ripple01 ELSE Ripple05

\* C24: for butterworth and bessel the ripple argument has no influence: the
\* call ends exactly as the same call made with another ripple (0.5 dB, or
\* the untabulated 0.2 dB when the call's own ripple is 0.5 dB), with the same
\* error or an equal result, and a returned result carries ripple_db = None;
\* a returned chebyshev result carries the input ripple.
C24_RippleOnlyForChebyshev ==
    Ended =>
        /\ args.filter_type \in {"butterworth", "bessel"} =>
              /\ outcome = RunAlone(WithRipple(args, OtherRipple(args.ripple_db)))
              /\ pc = "returned" => outcome.value.ripple_db = None
        /\ args.filter_type = "chebyshev" /\ pc = "returned" =>
              outcome.value.ripple_db = <<args.ripple_db>>

C24_Witness ==
    /\ pc = "returned"
    /\ args.filter_type = "bessel"
    /\ args.ripple_db = 2 * Ripple01
    /\ outcome.value.ripple_db = None
    /\ RunAlone(WithRipple(args, Ripple10)) = outcome

OtherCoupling(c) == IF c = "top" THEN "shunt" ELSE "top"

WithCoupling(a, c) == [a EXCEPT !.coupling = c]

WithoutShuntWarning(w) == SelectSeq(w, LAMBDA m : m # MsgShunt)

\* C25: a call with coupling top or shunt ends as the same call with the other
\* coupling: both raise the same error, or both return, and the two results
\* are equal in every field except coupling and warnings, the warnings being
\* equal once the Shunt-C warning is taken out (a top-coupled result never
\* carries it).
C25_CouplingOnlyLabels ==
    Ended /\ args.coupling \in {"top", "shunt"} =>
        LET other == RunAlone(WithCoupling(args, OtherCoupling(args.coupling)))
        IN  /\ other.kind = outcome.kind
            /\ outcome.kind = "error" => other = outcome
            /\ outcome.kind = "return" =>
                  /\ [other.value EXCEPT !.coupling = args.coupling,
                                         !.warnings = outcome.value.warnings]
                        = outcome.value
                  /\ WithoutShuntWarning(other.value.warnings)
                        = WithoutShuntWarning(outcome.value.warnings)
                  /\ args.coupling = "top" =>
                        WithoutShuntWarning(outcome.value.warnings)
                            = outcome.value.warnings

C25_Witness ==
    /\ pc = "returned"
    /\ args.coupling = "shunt"
    /\ outcome.value.warnings = <<MsgShunt>>
    /\ RunAlone(WithCoupling(args, "top")).kind = "return"
    /\ RunAlone(WithCoupling(args, "top")).value.warnings = <<>>
    /\ RunAlone(WithCoupling(args, "top")).value.c_tank = outcome.value.c_tank

\* the call at k times the frequencies (same bw / f0) and m times the impedance
Rescaled(a, k, m) == [a EXCEPT !.f0 = k * a.f0, !.bw = k * a.bw, !.z0 = m * a.z0]

\* whether the call is realizable and, if not, the resonators reported
Feasibility_(o) == IF IsUnrealizable(o) THEN <<"unrealizable", o.caps>>
                   ELSE <<o.kind>>

TankRounding == 2

\* no tank capacitor of the call is within rounding error of zero
ClearOfZero(s) ==
    \A i \in DOMAIN s.c_tank :
        s.c_tank[i] >= TankRounding \/ s.c_tank[i] <= 0 - TankRounding

ScaleFree(other) ==
    ClearOfZero(CurrentFrame) /\ ClearOfZero(other) =>
        Feasibility_(other.outcome) = Feasibility_(outcome)

WithBw(a, b) == [a EXCEPT !.bw = b]

\* the wider bandwidths of the grid that are still below f0
WiderBandwidths == {b \in BwValues : args.bw < b /\ b < args.f0}

\* the least of them, if any
NextWider == {b \in WiderBandwidths : \A c \in WiderBandwidths : b <= c}

\* C27: a call that failed as physically unrealizable fails as physically
\* unrealizable at the next wider bandwidth below f0 as well, all other
\* arguments equal, and every resonator it reported is reported there too.
\* Every bandwidth of the grid being the bandwidth of some call, this carries
\* from each bandwidth to every wider one below f0.
C27_FeasibilityMonotone ==
    Ended /\ IsUnrealizable(outcome) =>
        \A b \in NextWider :
            LET wider == RunAlone(WithBw(args, b))
            IN  /\ IsUnrealizable(wider)
                /\ Elems(outcome.caps) \subseteq Elems(wider.caps)

C27_Witness ==
    /\ pc = "raised"
    /\ IsUnrealizable(outcome)
    /\ \E b \in NextWider :
          /\ IsUnrealizable(RunAlone(WithBw(args, b)))
          /\ Elems(outcome.caps) # Elems(RunAlone(WithBw(args, b)).caps)
          /\ Elems(outcome.caps) \subseteq Elems(RunAlone(WithBw(args, b)).caps)

Reverse(q) == [i \in 1..Len(q) |-> q[Len(q) + 1 - i]]

MirrorSymmetric(r) ==
    /\ Reverse(r.g_values) = r.g_values
    /\ Reverse(r.k_values) = r.k_values
    /\ Reverse(r.c_coupling) = r.c_coupling
    /\ Reverse(r.c_tank) = r.c_tank
    /\ r.qe_in = r.qe_out

\* C29: every returned chebyshev result is mirror-symmetric (g_values,
\* k_values, c_coupling and c_tank equal their reversal, qe_in = qe_out);
\* every returned bessel result has qe_in different from qe_out.
C29_ChebyshevMirror ==
    pc = "returned" =>
        /\ args.filter_type = "chebyshev" => MirrorSymmetric(outcome.value)
        /\ args.filter_type = "bessel" => outcome.value.qe_in # outcome.value.qe_out

C29_Witness ==
    /\ pc = "returned"
    /\ args.filter_type = "chebyshev"
    /\ args.n_resonators = 9
    /\ args.ripple_db = Ripple10
    /\ Len(outcome.value.c_tank) = 9
    /\ outcome.value.c_tank[1] # outcome.value.c_tank[2]
    /\ MirrorSymmetric(outcome.value)

\* the candidates of a find_closest_single call in the order examined: the
\* target's decade in ascending order, the first value of the decade above,
\* the last value of the decade below
Examined(k) ==
    SingleCandidate(E_SERIES[e_call.series], DecadeOf(e_call.target), k)

ExaminedCount == Len(E_SERIES[e_call.series]) + 2

\* the candidate examined at position j is returned, every earlier one is
\* strictly worse and no later one is strictly better
FirstOfTheBest(j) ==
    /\ Examined(j) = e_result.value[1]
    /\ error_pct(Examined(j), e_call.target) = e_result.value[2]
    /\ \A k \in 1..(j - 1) :
          FlLess(e_result.value[2], error_pct(Examined(k), e_call.target))
    /\ \A k \in (j + 1)..ExaminedCount :
          ~FlLess(error_pct(Examined(k), e_call.target), e_result.value[2])

\* C30: find_closest_single returns the first examined candidate of least
\* percent error: of two equally close values of the target's decade the
\* smaller, a value of the target's decade before the equally close first
\* value of the decade above, and that one before the last value of the
\* decade below.
C30_FirstExaminedWins ==
    Returned("find_closest_single") =>
        \E j \in 1..ExaminedCount : FirstOfTheBest(j)

\* 9100 lies midway between 8200 and the first value 10000 of the next decade
C30_Witness ==
    /\ Returned("find_closest_single")
    /\ e_call.series = "E12"
    /\ e_call.target = FlFromInt(9100)
    /\ e_result.value[1] = FlFromInt(8200)
    /\ error_pct(FlFromInt(10000), e_call.target) = e_result.value[2]
    /\ Examined(ExaminedCount - 1) = FlFromInt(10000)

CenterInput == cli.input.frequency # None
CutoffInput == cli.input.f_low # None

\* the dict calculate_bandpass_filter returned to main
EngineResult == RunAlone(EngineArgs(cli)).value

FrameOfOverride ==
    [cli.result EXCEPT !.f_low = EngineResult.f_low,
                       !.f_high = EngineResult.f_high] = EngineResult

CutoffsWritten ==
    /\ cli.result.f_low = cli.input.f_low[1]
    /\ cli.result.f_high = cli.input.f_high[1]
    /\ cli.result.f_high - cli.result.f_low = cli.result.bw

\* f_low * f_high = f0^2 up to the rounding of the square root
GeometricCenter ==
    LET p == cli.result.f_low * cli.result.f_high
        sq == cli.result.f0 * cli.result.f0
    IN  sq - cli.result.f0 < p /\ p <= sq + cli.result.f0

C28_ValidatedNeverMisconfigured ==
    cli # None /\ cli.pc = "exit" /\ cli.at = <<"calculate">> =>
        IsUnrealizable(cli.error)

C28_Witness ==
    /\ cli # None
    /\ cli.pc = "exit"
    /\ cli.at = <<"calculate">>
    /\ cli.input.filter_type = "chebyshev"
    /\ cli.input.f_low # None
    /\ IsUnrealizable(cli.error)

\* C21: however the statements of the calls interleave, every call that has
\* ended raised or returned what the same call raises or returns when run
\* alone with the same arguments, and the module-level tables are as
\* imported.
C21_CallsIndependent ==
    /\ \A c \in DOMAIN calls : SideEnded(c) => SideOutcome(c) = SideAlone(c)
    /\ calls # <<>> => \A id \in TableIds : heap[id] = TableContent(id)

\* caller 2 has run its call to the end while caller 1, holding its own two
\* warnings, is between two statements
C21_Witness ==
    /\ calls # <<>>
    /\ calls[1].fn = "calculate_bandpass_filter"
    /\ calls[1].frame.pc = "assemble"
    /\ SideView(1).warnings = <<MsgShunt, MsgWide>>
    /\ calls[2].fn = "calculate_bandpass_filter"
    /\ calls[2].frame.pc = "returned"
    /\ SideOutcome(2).value.warnings = <<MsgWide>>
    /\ SideOutcome(2) = SideAlone(2)

====
